---- MODULE Spec2Model ----
(***************************************************************************)
(* Polymarket insider tracker: the detection pipeline of src/src/main.ts   *)
(* (poll loop, dedup, filters, analyzeTrade, alerting) and of the API      *)
(* client and configuration in src/unnamed/part_002 (withRetry and the     *)
(* three fetches, calculateUserStats, calculateTradeValue).                *)
(*                                                                         *)
(* The program is one async control flow.  It gives up control only where  *)
(* it awaits I/O (an HTTP call, a timer); an action below is the code that *)
(* runs from one such point to the next.  pc names the I/O the flow waits  *)
(* on, or the loop head it stands at.                                      *)
(***************************************************************************)
EXTENDS Integers, Sequences, FiniteSets, TLC

(***************************************************************************)
(* Bounds of the model.                                                    *)
(***************************************************************************)
\* Most trades the feed returns in one batch (the code asks for 100).
MaxBatch == 2
\* Poll cycles explored: of the whole pipeline, and where the feed is narrowed
\* to the processed-ID set's eviction.
MaxPolls == 2
DedupPolls == 3
\* The wallet-cache cap of main.ts:164 (1000 there), scaled down.
StatsCacheCap == 2
\* Wall-clock horizon in ms; no step takes the clock past it.
MaxClock == 186000
\* 429 answers in a row that are counted
MaxThrottles == 8
\* Largest uniqueMarkets / freshness ceiling drawn for the classifier.
MaxMarkets == 7

(***************************************************************************)
(* Program constants.                                                      *)
(***************************************************************************)
INITIAL_BACKOFF_MS == 1000
MAX_BACKOFF_MS == 60000
BACKOFF_MULTIPLIER == 2
USER_CACHE_TTL_MS == 60000
MIN_TRADE_SIZE_USD == 1000
DEFAULT_MAX_UNIQUE_MARKETS == 5
POLL_INTERVAL_MS == 2000

\* The processed-ID cap of main.ts:70, 10000 there and scaled down here: twice
\* the batch bound, so that, as in the code, no batch is larger than the half
\* of the cap that main.ts:71 evicts (5000 there).
ProcessedCap == 2 * MaxBatch
ProcessedEvict == ProcessedCap \div 2

(***************************************************************************)
(* Values.                                                                 *)
(***************************************************************************)
NULL == [null |-> TRUE]

\* A JavaScript number: NaN, Infinity, or a finite value.
NaN == [nan |-> TRUE, inf |-> FALSE, v |-> 0]
Infinity == [nan |-> FALSE, inf |-> TRUE, v |-> 0]
Num(n) == [nan |-> FALSE, inf |-> FALSE, v |-> n]

Min(a, b) == IF a <= b THEN a ELSE b

Range(s) == {s[i] : i \in 1..Len(s)}

\* parseFloat on the numeric strings the feeds below use; any other string
\* does not start with a number.
ParseFloat(s) ==
    CASE s = "0" -> Num(0)
      [] s = "Infinity" -> Infinity
      [] s = "1" -> Num(1)
      [] s = "999" -> Num(999)
      [] s = "1000" -> Num(1000)
      [] s = "4999" -> Num(4999)
      [] s = "5000" -> Num(5000)
      [] s = "6000" -> Num(6000)
      [] s = "100000" -> Num(100000)
      [] OTHER -> NaN

\* OrZero without the `|| 0`.
OrZeroKeepsNaN(x) == x

\* JavaScript's `x || 0` on a number: NaN and 0 are falsy.
OrZero(x) == IF x.nan THEN Num(0) ELSE x

\* JavaScript's `a * b` on numbers that are not negative: NaN is absorbing and
\* Infinity * 0 is NaN.
Times(a, b) ==
    IF a.nan \/ b.nan THEN NaN
    ELSE IF a.inf THEN (IF ~b.inf /\ b.v = 0 THEN NaN ELSE Infinity)
    ELSE IF b.inf THEN (IF a.v = 0 THEN NaN ELSE Infinity)
    ELSE Num(a.v * b.v)

\* JavaScript's `x >= n` and `x > n` for a finite n: false on NaN.
GreaterOrEqual(x, n) == ~x.nan /\ (x.inf \/ x.v >= n)
Greater(x, n) == ~x.nan /\ (x.inf \/ x.v > n)

\* part_002:307-311
calculateTradeValue(trade) ==
    LET price == OrZero(ParseFloat(trade.price))
        size == OrZero(ParseFloat(trade.size))
    IN  Times(price, size)

\* maskAddress with the last four characters kept.
maskAddressKeepsFour(address) ==
    IF address = <<>> \/ Len(address) < 10 THEN address
    ELSE SubSeq(address, 1, 5) \o <<".", ".", ".">>
         \o SubSeq(address, Len(address) - 3, Len(address))

\* part_002:297-300, on a string as the sequence of its characters.
maskAddress(address) ==
    IF address = <<>> \/ Len(address) < 10 THEN address
    ELSE SubSeq(address, 1, 5) \o <<".", ".", ".">>
         \o SubSeq(address, Len(address) - 2, Len(address))

\* types.ts Trade, the fields the program reads; match_time is an ISO timestamp.
MkTrade(id, market, side, owner, price, size) ==
    [price |-> price, size |-> size, id |-> id, market |-> market, side |-> side,
     owner |-> owner, match_time |-> "2024-01-01T00:00:00Z"]

\* A trade whose match_time no Date can be made of.
Undated(trade) == [trade EXCEPT !.match_time = ""]

\* main.ts:295: new Date(s).toISOString() throws a RangeError on an invalid date.
ToISOStringThrows(s) == s # "2024-01-01T00:00:00Z"

\* The trades the upstream feed may serve: eligible ones (a BUY of at least
\* MIN_TRADE_SIZE_USD with an owner), and one of each kind the filters drop.
Feed ==
    { MkTrade(1, "m1", "BUY", "w1", "1", "6000"),
      MkTrade(2, "m2", "BUY", "w2", "1", "1000"),
      MkTrade(3, "m1", "SELL", "w1", "1", "6000"),
      MkTrade(4, "m2", "BUY", "", "1", "6000"),
      MkTrade(5, "m1", "BUY", "w2", "1", "999"),
      MkTrade(6, "m2", "BUY", "w1", "abc", "6000"),
      MkTrade(7, "m1", "BUY", "w3", "1", "5000"),
      MkTrade(8, "m2", "BUY", "w1", "1", "1000"),
      MkTrade(9, "m2", "SELL", "w3", "1", "0"),
      Undated(MkTrade(10, "m1", "BUY", "w2", "1", "6000")) }

FeedOf(ids) == {t \in Feed : t.id \in ids}

Ids == {t.id : t \in Feed}
Wallets == {t.owner : t \in Feed} \ {""}
Markets == {t.market : t \in Feed}

\* Batches the feed may return: any sequence of at most MaxBatch trades, an
\* identifier possibly repeated.
BatchesOf(feed) == UNION {[1..n -> feed] : n \in 0..MaxBatch}

MkActivity(type, side, market) == [market |-> market, side |-> side, type |-> type]

\* n trade records on n distinct markets.
TradesOn(n) == [i \in 1..n |-> MkActivity("trade", "BUY", i)]

\* Activity histories the upstream may serve (side "" is an absent side).
ActivityPayloads ==
    { <<>>,
      TradesOn(1),
      <<MkActivity("trade", "", 1), MkActivity("deposit", "", 9),
        MkActivity("order", "SELL", 2), MkActivity("trade", "BUY", 1)>>,
      TradesOn(4),
      TradesOn(6) }

\* What the metadata service may answer for a market: a record, or no match.
MarketRecord(conditionId) == [question |-> conditionId]
MarketAnswers(conditionId) == {MarketRecord(conditionId), NULL}

\* Time a network call takes before it answers.
Instant == {0}
CallDurations == {0, 60000}

(***************************************************************************)
(* part_002:245-263 calculateUserStats                                         *)
(***************************************************************************)
\* Qualifies without the test of the side.
QualifiesTypeOnly(activity) == activity.type = "trade"

Qualifies(activity) == activity.type = "trade" \/ activity.side # ""

calculateUserStats(activities) ==
    LET q == {i \in 1..Len(activities) : Qualifies(activities[i])}
    IN  [uniqueMarkets |-> Cardinality({activities[i].market : i \in q}),
         totalTrades |-> Cardinality(q)]

(***************************************************************************)
(* part_002:182 withRetry's backoff step                                   *)
(***************************************************************************)
\* NextBackoff without the ceiling.
NextBackoffUncapped(b) == b * BACKOFF_MULTIPLIER

\* NextBackoff adding to the delay instead of multiplying it.
NextBackoffLinear(b) == Min(b + INITIAL_BACKOFF_MS * BACKOFF_MULTIPLIER, MAX_BACKOFF_MS)

NextBackoff(b) == Min(b * BACKOFF_MULTIPLIER, MAX_BACKOFF_MS)

(***************************************************************************)
(* main.ts pollTrades: dedup, eviction and the two filters                 *)
(***************************************************************************)
\* Set.add of each element of ids, in order, to an insertion-ordered set.
RECURSIVE AddAll(_, _)
AddAll(set, ids) ==
    IF ids = <<>> THEN set
    ELSE AddAll(IF Head(ids) \in Range(set) THEN set ELSE Append(set, Head(ids)),
                Tail(ids))

\* main.ts:62
FilterNew(trades, processed) ==
    LET IsNew(t) == t.id \notin Range(processed)
    IN  SelectSeq(trades, IsNew)

\* main.ts:65-67
AddProcessed(processed, new) ==
    AddAll(processed, [i \in 1..Len(new) |-> new[i].id])

\* EvictProcessed evicting the newest entries instead of the oldest.
EvictNewest(processed) ==
    IF Len(processed) > ProcessedCap
    THEN SubSeq(processed, 1, Len(processed) - ProcessedEvict)
    ELSE processed

\* EvictProcessed deleting one identifier only.
EvictOldestOne(processed) ==
    IF Len(processed) > ProcessedCap THEN Tail(processed) ELSE processed

\* EvictProcessed with "at the cap" for "above the cap".
EvictAtCap(processed) ==
    IF Len(processed) >= ProcessedCap
    THEN SubSeq(processed, ProcessedEvict + 1, Len(processed))
    ELSE processed

\* EvictProcessed clearing the whole set.
EvictAll(processed) ==
    IF Len(processed) > ProcessedCap THEN <<>> ELSE processed

\* main.ts:70-75
EvictProcessed(processed) ==
    IF Len(processed) > ProcessedCap
    THEN SubSeq(processed, Min(ProcessedEvict, Len(processed)) + 1, Len(processed))
    ELSE processed

\* main.ts:78-81
WithValue(trades) ==
    [i \in 1..Len(trades) |->
        [id |-> trades[i].id, market |-> trades[i].market, side |-> trades[i].side,
         owner |-> trades[i].owner, price |-> trades[i].price, size |-> trades[i].size,
         match_time |-> trades[i].match_time,
         valueUsd |-> calculateTradeValue(trades[i])]]

\* main.ts:84-86
IsLarge(trade) == GreaterOrEqual(trade.valueUsd, MIN_TRADE_SIZE_USD)
LargeTrades(withValue) == SelectSeq(withValue, IsLarge)

\* IsAggressive without the side test.
IsAggressiveAnySide(trade) == trade.owner # ""

\* main.ts:91-93
IsAggressive(trade) == trade.side = "BUY" /\ trade.owner # ""
\* AggressiveTrades handing the trades over newest first.
AggressiveTradesReversed(large) ==
    LET kept == SelectSeq(large, IsAggressive)
    IN  [i \in 1..Len(kept) |-> kept[Len(kept) + 1 - i]]

AggressiveTrades(large) == SelectSeq(large, IsAggressive)

(***************************************************************************)
(* main.ts analyzeTrade: the wallet-stats cache (a Map, insertion-ordered) *)
(***************************************************************************)
CacheHas(cache, wallet) == \E i \in 1..Len(cache) : cache[i].wallet = wallet

CacheGet(cache, wallet) ==
    cache[CHOOSE i \in 1..Len(cache) : cache[i].wallet = wallet]

\* Map.set: an existing key keeps its place, a new key goes last.
CacheSet(cache, entry) ==
    IF CacheHas(cache, entry.wallet)
    THEN [i \in 1..Len(cache) |->
            IF cache[i].wallet = entry.wallet THEN entry ELSE cache[i]]
    ELSE Append(cache, entry)

\* EvictStats that never deletes.
EvictStatsNever(cache) == cache

\* main.ts:164-167
EvictStats(cache) ==
    IF Len(cache) > StatsCacheCap THEN Tail(cache) ELSE cache

\* IsCacheHit without the TTL test.
IsCacheHitNoTTL(cache, wallet, t) == CacheHas(cache, wallet)

\* main.ts:150
IsCacheHit(cache, wallet, t) ==
    /\ CacheHas(cache, wallet)
    /\ (t - CacheGet(cache, wallet).timestamp) < USER_CACHE_TTL_MS

\* main.ts:158-167
StoreStats(cache, wallet, stats, t) ==
    EvictStats(CacheSet(cache,
        [wallet |-> wallet, uniqueMarkets |-> stats.uniqueMarkets,
         totalTrades |-> stats.totalTrades, timestamp |-> t]))

(***************************************************************************)
(* main.ts analyzeTrade: the freshness test and the tiers                  *)
(***************************************************************************)
\* IsFresh with a strict comparison.
IsFreshStrict(uniqueMarkets, ceiling) == uniqueMarkets < ceiling

\* IsFresh that every wallet passes.
IsFreshAlways(uniqueMarkets, ceiling) == TRUE

\* IsFresh with the tiers of up to 3 markets passing whatever the ceiling.
IsFreshOrTiered(uniqueMarkets, ceiling) == uniqueMarkets <= ceiling \/ uniqueMarkets <= 3

\* main.ts:171
IsFresh(uniqueMarkets, ceiling) == uniqueMarkets <= ceiling

\* AlertLevel with "above $5000" for "at least $5000".
AlertLevelAbove5000(uniqueMarkets, valueUsd) ==
    IF uniqueMarkets <= 2 /\ Greater(valueUsd, 5000) THEN "HIGH"
    ELSE IF uniqueMarkets <= 1 THEN "HIGH"
    ELSE IF uniqueMarkets <= 3 THEN "MEDIUM"
    ELSE "LOW"

\* AlertLevel with the MEDIUM and LOW tiers exchanged.
AlertLevelSwapped(uniqueMarkets, valueUsd) ==
    IF uniqueMarkets <= 2 /\ GreaterOrEqual(valueUsd, 5000) THEN "HIGH"
    ELSE IF uniqueMarkets <= 1 THEN "HIGH"
    ELSE IF uniqueMarkets <= 3 THEN "LOW"
    ELSE "MEDIUM"

\* main.ts:184-210
AlertLevel(uniqueMarkets, valueUsd) ==
    IF uniqueMarkets <= 2 /\ GreaterOrEqual(valueUsd, 5000) THEN "HIGH"
    ELSE IF uniqueMarkets <= 1 THEN "HIGH"
    ELSE IF uniqueMarkets <= 3 THEN "MEDIUM"
    ELSE "LOW"

Clause(text, n) == [text |-> text, n |-> n]

\* Reasons with the brand-new-wallet test made before the large-position test.
ReasonsBrandNewFirst(uniqueMarkets, valueUsd) ==
    <<[text |-> "Fresh Wallet (n lifetime markets)", n |-> uniqueMarkets],
      [text |-> "Taker BUY (aggressive)", n |-> 0]>>
    \o (IF uniqueMarkets <= 1 THEN <<[text |-> "Brand New Wallet", n |-> 0]>>
        ELSE IF uniqueMarkets <= 2 /\ GreaterOrEqual(valueUsd, 5000)
        THEN <<[text |-> "Large Position ($n)", n |-> valueUsd]>>
        ELSE <<>>)

\* Reasons with the tier's clause pushed before the two common clauses.
ReasonsTierFirst(uniqueMarkets, valueUsd) ==
    (IF uniqueMarkets <= 2 /\ GreaterOrEqual(valueUsd, 5000)
     THEN <<Clause("Large Position ($n)", valueUsd)>>
     ELSE IF uniqueMarkets <= 1 THEN <<Clause("Brand New Wallet", 0)>>
     ELSE <<>>)
    \o <<Clause("Fresh Wallet (n lifetime markets)", uniqueMarkets),
         Clause("Taker BUY (aggressive)", 0)>>

\* main.ts:188-212: the clauses joined into the reason string, in order.
Reasons(uniqueMarkets, valueUsd) ==
    <<Clause("Fresh Wallet (n lifetime markets)", uniqueMarkets),
      Clause("Taker BUY (aggressive)", 0)>>
    \o (IF uniqueMarkets <= 2 /\ GreaterOrEqual(valueUsd, 5000)
        THEN <<Clause("Large Position ($n)", valueUsd)>>
        ELSE IF uniqueMarkets <= 1 THEN <<Clause("Brand New Wallet", 0)>>
        ELSE <<>>)

\* MarketCached taking a cached null for no entry.
MarketCachedRecord(cache, market) == market \in DOMAIN cache /\ cache[market] # NULL

\* main.ts:176
MarketCached(cache, market) == market \in DOMAIN cache

\* main.ts:214-225
MkSuspect(trade, stats, market) ==
    [trade |-> trade,
     userStats |-> [address |-> trade.owner, uniqueMarkets |-> stats.uniqueMarkets,
                    totalTrades |-> stats.totalTrades],
     market |-> market,
     reason |-> Reasons(stats.uniqueMarkets, OrZero(trade.valueUsd)),
     alertLevel |-> AlertLevel(stats.uniqueMarkets, OrZero(trade.valueUsd))]

(***************************************************************************)
(* State                                                                   *)
(***************************************************************************)
VARIABLES
    \* main.ts:35-48 and part_002:160
    processedTradeIds, userStatsCache, marketCache, pollCount, isRunning,
    currentBackoff,
    \* config.ts, read once at startup
    MAX_UNIQUE_MARKETS, DISCORD_WEBHOOK_URL,
    \* where the control flow stands, and the locals of pollTrades/analyzeTrade
    pc, trades, newTrades, aggressiveTrades, idx, now, userStats, suspects, aidx,
    \* the HTTP request of the running withRetry / axios.post:
    \* "idle", "pending", or the upstream's answer "ok", "throttled", "error"
    http,
    \* Date.now()
    clock,
    \* what the process wrote to the console in the current cycle
    console,
    \* observations: the last backoff sleep and the throttling answers since the
    \* last success
    lastSleep, throttles,
    \* observations: identifiers the feed has served, the number of cycles each
    \* was a new trade in, and the alerts dispatched for each (both stop at 2)
    seenIds, newCycles, alertCount,
    \* observations: per wallet the stats and start time of its last lookup that
    \* called upstream, and the facts of the lookup in progress (the activity
    \* list it received among them)
    lastFetch, lookup

state == <<processedTradeIds, userStatsCache, marketCache, pollCount, isRunning,
           currentBackoff>>
config == <<MAX_UNIQUE_MARKETS, DISCORD_WEBHOOK_URL>>
cycle == <<trades, newTrades, aggressiveTrades, idx, suspects, aidx>>
retryObs == <<lastSleep, throttles>>
dedupObs == <<seenIds, newCycles, alertCount>>
cacheObs == <<lastFetch, lookup>>

vars == <<processedTradeIds, userStatsCache, marketCache, pollCount, isRunning,
          currentBackoff, MAX_UNIQUE_MARKETS, DISCORD_WEBHOOK_URL, pc, trades,
          newTrades, aggressiveTrades, idx, now, userStats, suspects, aidx, http,
          clock, console, lastSleep, throttles, seenIds, newCycles, alertCount,
          lastFetch, lookup>>

FetchPcs == {"fetchTrades", "fetchActivity", "fetchMarket"}

NoStats == [uniqueMarkets |-> 0, totalTrades |-> 0]
NoEntry == [wallet |-> "", uniqueMarkets |-> 0, totalTrades |-> 0, timestamp |-> 0]
NoLookup == [wallet |-> "", cached |-> FALSE, hasPrior |-> FALSE, prior |-> NoEntry,
             fetches |-> 0, activities |-> <<>>]
EmptyMap == [k \in {} |-> NULL]

MapSet(map, key, value) ==
    [k \in DOMAIN map \cup {key} |-> IF k = key THEN value ELSE map[k]]

Bump(count, id) == [count EXCEPT ![id] = Min(@ + 1, 2)]

\* State after the modules are loaded (main.ts:35-48, part_002:160), before main().
InitState ==
    /\ processedTradeIds = <<>>
    /\ userStatsCache = <<>>
    /\ marketCache = EmptyMap
    /\ pollCount = 0
    /\ isRunning = TRUE
    /\ currentBackoff = INITIAL_BACKOFF_MS
    /\ pc = "init"
    /\ trades = <<>> /\ newTrades = <<>> /\ aggressiveTrades = <<>>
    /\ idx = 1 /\ suspects = <<>> /\ aidx = 1
    /\ now = 0 /\ userStats = NoStats
    /\ http = "idle"
    /\ clock = 0
    /\ console = <<>>
    /\ lastSleep = 0 /\ throttles = 0
    /\ seenIds = {} /\ newCycles = [i \in Ids |-> 0] /\ alertCount = [i \in Ids |-> 0]
    /\ lastFetch = EmptyMap /\ lookup = NoLookup

Init ==
    /\ InitState
    /\ MAX_UNIQUE_MARKETS = DEFAULT_MAX_UNIQUE_MARKETS
    /\ DISCORD_WEBHOOK_URL \in {"", "https://discord/webhook"}

(***************************************************************************)
(* The upstream services                                                   *)
(***************************************************************************)
\* Date.now() after ms milliseconds, observed up to MaxClock.  A specification
\* that is not timed leaves the clock out: it stays as it is.
Elapses(ms, timed) ==
    IF timed THEN clock + ms <= MaxClock /\ clock' = clock + ms
    ELSE clock' = clock

\* An HTTP call in flight is answered after some time: a payload, a 429, or
\* any other failure (5xx, timeout, network error).
UpstreamAnswers(answer, durations) ==
    /\ http = "pending"
    /\ \E d \in durations : Elapses(d, TRUE)
    /\ http' = answer
    /\ UNCHANGED <<state, config, pc, cycle, now, userStats, console, retryObs,
                   dedupObs, cacheObs>>

UpstreamOk(durations) == UpstreamAnswers("ok", durations)
UpstreamThrottles(durations) == UpstreamAnswers("throttled", durations)
UpstreamFails(durations) == UpstreamAnswers("error", durations)

(***************************************************************************)
(* part_002 withRetry                                                      *)
(***************************************************************************)
\* RetryThrottled giving up after two retries: the 429 is then handled as any
\* other failure.
RetryThrottledGivesUp(timed) ==
    /\ pc \in FetchPcs
    /\ http = "throttled"
    /\ IF throttles >= 2
       THEN /\ http' = "error"
            /\ UNCHANGED <<currentBackoff, clock, lastSleep, throttles>>
       ELSE /\ Elapses(currentBackoff, timed)
            /\ lastSleep' = currentBackoff
            /\ throttles' = Min(throttles + 1, MaxThrottles)
            /\ currentBackoff' = IF currentBackoff * BACKOFF_MULTIPLIER <= MAX_BACKOFF_MS
                                 THEN currentBackoff * BACKOFF_MULTIPLIER
                                 ELSE MAX_BACKOFF_MS
            /\ http' = "pending"
    /\ UNCHANGED <<processedTradeIds, userStatsCache, marketCache, pollCount,
                   isRunning, config, pc, cycle, now, userStats, console, dedupObs,
                   cacheObs>>

\* part_002:177-184 (catch, status 429): sleep for currentBackoff, raise it, retry.
RetryThrottled(timed) ==
    /\ pc \in FetchPcs
    /\ http = "throttled"
    /\ Elapses(currentBackoff, timed)
    /\ lastSleep' = currentBackoff
    /\ throttles' = Min(throttles + 1, MaxThrottles)
    /\ currentBackoff' = NextBackoff(currentBackoff)
    /\ http' = "pending"
    /\ UNCHANGED <<processedTradeIds, userStatsCache, marketCache, pollCount,
                   isRunning, config, pc, cycle, now, userStats, console, dedupObs,
                   cacheObs>>

\* RetryReturns on a success only.
RetryReturnsOnSuccess ==
    /\ http = "ok"
    /\ http' = "idle"
    /\ currentBackoff' = INITIAL_BACKOFF_MS
    /\ throttles' = 0
    /\ UNCHANGED <<lastSleep, clock>>

\* RetryReturns raising the backoff on a failure that is not a 429.
RetryReturnsBacksOff ==
    /\ http \in {"ok", "error"}
    /\ http' = "idle"
    /\ currentBackoff' = IF http = "ok" THEN INITIAL_BACKOFF_MS
                         ELSE IF currentBackoff * BACKOFF_MULTIPLIER <= MAX_BACKOFF_MS
                         THEN currentBackoff * BACKOFF_MULTIPLIER
                         ELSE MAX_BACKOFF_MS
    /\ throttles' = IF http = "ok" THEN 0 ELSE throttles
    /\ UNCHANGED <<lastSleep, clock>>

\* RetryReturns resetting the backoff on a failure as on a success.
RetryReturnsResets ==
    /\ http \in {"ok", "error"}
    /\ http' = "idle"
    /\ currentBackoff' = INITIAL_BACKOFF_MS
    /\ throttles' = IF http = "ok" THEN 0 ELSE throttles
    /\ UNCHANGED <<lastSleep, clock>>

\* part_002:170-173 (try): a success resets the backoff.  part_002:186-190: any other
\* failure leaves it and makes the result null.
RetryReturns ==
    /\ http \in {"ok", "error"}
    /\ http' = "idle"
    /\ currentBackoff' = IF http = "ok" THEN INITIAL_BACKOFF_MS ELSE currentBackoff
    /\ throttles' = IF http = "ok" THEN 0 ELSE throttles
    /\ UNCHANGED <<lastSleep, clock>>

(***************************************************************************)
(* main.ts main and pollTrades                                             *)
(***************************************************************************)
\* main.ts:55-59: pollCount++ and fetchRecentTrades(100) is called.
BeginPoll(polls) ==
    /\ pollCount < polls
    /\ pollCount' = pollCount + 1
    /\ pc' = "fetchTrades"
    /\ http' = "pending"
    /\ trades' = <<>> /\ newTrades' = <<>> /\ aggressiveTrades' = <<>>
    /\ idx' = 1 /\ suspects' = <<>> /\ aidx' = 1
    /\ console' = <<>>
    /\ UNCHANGED <<processedTradeIds, userStatsCache, marketCache, isRunning,
                   currentBackoff, config, now, userStats, retryObs, dedupObs,
                   cacheObs>>

\* main.ts:327-333: the initial poll.
Start(polls) ==
    /\ pc = "init"
    /\ BeginPoll(polls)
    /\ UNCHANGED clock

\* TradesFetched taking a batch also when the fetch failed.
TradesFetchedIgnoresFailure(feed) ==
    /\ pc = "fetchTrades"
    /\ RetryReturns
    /\ \E batch \in BatchesOf(feed) :
        LET new == FilterNew(batch, processedTradeIds)
            newIds == {new[i].id : i \in 1..Len(new)}
        IN  /\ trades' = batch
            /\ newTrades' = new
            /\ processedTradeIds' = EvictProcessed(AddProcessed(processedTradeIds, new))
            /\ aggressiveTrades' = AggressiveTrades(LargeTrades(WithValue(new)))
            /\ seenIds' = seenIds \cup {batch[i].id : i \in 1..Len(batch)}
            /\ newCycles' = [i \in Ids |-> IF i \in newIds THEN Min(newCycles[i] + 1, 2)
                                           ELSE newCycles[i]]
    /\ idx' = 1 /\ suspects' = <<>>
    /\ pc' = "analyze"
    /\ UNCHANGED <<userStatsCache, marketCache, pollCount, isRunning, config, aidx,
                   now, userStats, console, alertCount, cacheObs>>

\* part_002:202-212 and main.ts:59-96: fetchRecentTrades returns the batch (or []
\* for null); the batch is deduplicated, valued and filtered.
TradesFetched(feed) ==
    /\ pc = "fetchTrades"
    /\ RetryReturns
    /\ \E batch \in (IF http = "ok" THEN BatchesOf(feed) ELSE {<<>>}) :
        LET new == FilterNew(batch, processedTradeIds)
            newIds == {new[i].id : i \in 1..Len(new)}
        IN  /\ trades' = batch
            /\ newTrades' = new
            /\ processedTradeIds' = EvictProcessed(AddProcessed(processedTradeIds, new))
            /\ aggressiveTrades' = AggressiveTrades(LargeTrades(WithValue(new)))
            /\ seenIds' = seenIds \cup {batch[i].id : i \in 1..Len(batch)}
            /\ newCycles' = [i \in Ids |-> IF i \in newIds THEN Min(newCycles[i] + 1, 2)
                                           ELSE newCycles[i]]
    /\ idx' = 1 /\ suspects' = <<>>
    /\ pc' = "analyze"
    /\ UNCHANGED <<userStatsCache, marketCache, pollCount, isRunning, config, aidx,
                   now, userStats, console, alertCount, cacheObs>>

\* main.ts:98-99 and 136-154: the next trade is analyzed; without an owner it
\* yields null; else its wallet's stats come from the cache, or
\* fetchUserActivity is called.
AnalyzeTrade ==
    /\ pc = "analyze"
    /\ idx <= Len(aggressiveTrades)
    /\ LET wallet == aggressiveTrades[idx].owner
           hit == IsCacheHit(userStatsCache, wallet, clock)
       IN  IF wallet = ""
           THEN /\ idx' = idx + 1
                /\ UNCHANGED <<pc, http, now, userStats, lookup>>
           ELSE /\ now' = clock
                /\ idx' = idx
                /\ lookup' = [wallet |-> wallet,
                              cached |-> CacheHas(userStatsCache, wallet),
                              hasPrior |-> wallet \in DOMAIN lastFetch,
                              prior |-> IF wallet \in DOMAIN lastFetch
                                        THEN lastFetch[wallet] ELSE NoEntry,
                              fetches |-> IF hit THEN 0 ELSE 1,
                              activities |-> <<>>]
                /\ IF hit
                   THEN /\ userStats' =
                            [uniqueMarkets |-> CacheGet(userStatsCache, wallet).uniqueMarkets,
                             totalTrades |-> CacheGet(userStatsCache, wallet).totalTrades]
                        /\ pc' = "classify"
                        /\ http' = "idle"
                   ELSE /\ userStats' = userStats
                        /\ pc' = "fetchActivity"
                        /\ http' = "pending"
    /\ UNCHANGED <<state, config, trades, newTrades, aggressiveTrades, suspects, aidx,
                   clock, console, retryObs, dedupObs, lastFetch>>

\* ActivityFetched dropping the trade when the fetch failed.
ActivityFetchedSkipsFailure(payloads) ==
    /\ pc = "fetchActivity"
    /\ RetryReturns
    /\ IF http = "ok"
       THEN /\ \E activities \in payloads :
                LET wallet == aggressiveTrades[idx].owner
                    stats == calculateUserStats(activities)
                IN  /\ userStats' = stats
                    /\ userStatsCache' = StoreStats(userStatsCache, wallet, stats, now)
                    /\ lastFetch' = MapSet(lastFetch, wallet,
                                       [wallet |-> wallet,
                                        uniqueMarkets |-> stats.uniqueMarkets,
                                        totalTrades |-> stats.totalTrades,
                                        timestamp |-> now])
                    /\ lookup' = [lookup EXCEPT !.activities = activities]
            /\ pc' = "classify"
            /\ idx' = idx
       ELSE /\ pc' = "analyze"
            /\ idx' = idx + 1
            /\ UNCHANGED <<userStats, userStatsCache, lastFetch, lookup>>
    /\ UNCHANGED <<processedTradeIds, marketCache, pollCount, isRunning, config, trades,
                   newTrades, aggressiveTrades, suspects, aidx, now, console, dedupObs>>

\* ActivityFetched stamping the cache entry with the time the fetch returned.
ActivityFetchedStampsReturn(payloads) ==
    /\ pc = "fetchActivity"
    /\ RetryReturns
    /\ \E activities \in (IF http = "ok" THEN payloads ELSE {<<>>}) :
        LET wallet == aggressiveTrades[idx].owner
            stats == calculateUserStats(activities)
        IN  /\ userStats' = stats
            /\ userStatsCache' = StoreStats(userStatsCache, wallet, stats, clock)
            /\ lastFetch' = MapSet(lastFetch, wallet,
                               [wallet |-> wallet, uniqueMarkets |-> stats.uniqueMarkets,
                                totalTrades |-> stats.totalTrades, timestamp |-> clock])
            /\ lookup' = [lookup EXCEPT !.activities = activities]
    /\ pc' = "classify"
    /\ UNCHANGED <<processedTradeIds, marketCache, pollCount, isRunning, config, cycle,
                   now, console, dedupObs>>

\* ActivityFetched storing an entry only for a fetch that succeeded.
ActivityFetchedForgetsFailure(payloads) ==
    /\ pc = "fetchActivity"
    /\ RetryReturns
    /\ \E activities \in (IF http = "ok" THEN payloads ELSE {<<>>}) :
        LET wallet == aggressiveTrades[idx].owner
            stats == calculateUserStats(activities)
        IN  /\ userStats' = stats
            /\ IF http = "ok"
               THEN /\ userStatsCache' = StoreStats(userStatsCache, wallet, stats, now)
                    /\ lastFetch' = MapSet(lastFetch, wallet,
                                       [wallet |-> wallet,
                                        uniqueMarkets |-> stats.uniqueMarkets,
                                        totalTrades |-> stats.totalTrades,
                                        timestamp |-> now])
               ELSE UNCHANGED <<userStatsCache, lastFetch>>
            /\ lookup' = [lookup EXCEPT !.activities = activities]
    /\ pc' = "classify"
    /\ UNCHANGED <<processedTradeIds, marketCache, pollCount, isRunning, config, cycle,
                   now, console, dedupObs>>

\* part_002:222-240 and main.ts:154-167: fetchUserActivity returns the activities
\* (or [] for null); the stats are computed and cached.
ActivityFetched(payloads) ==
    /\ pc = "fetchActivity"
    /\ RetryReturns
    /\ \E activities \in (IF http = "ok" THEN payloads ELSE {<<>>}) :
        LET wallet == aggressiveTrades[idx].owner
            stats == calculateUserStats(activities)
        IN  /\ userStats' = stats
            /\ userStatsCache' = StoreStats(userStatsCache, wallet, stats, now)
            /\ lastFetch' = MapSet(lastFetch, wallet,
                               [wallet |-> wallet, uniqueMarkets |-> stats.uniqueMarkets,
                                totalTrades |-> stats.totalTrades, timestamp |-> now])
            /\ lookup' = [lookup EXCEPT !.activities = activities]
    /\ pc' = "classify"
    /\ UNCHANGED <<processedTradeIds, marketCache, pollCount, isRunning, config, cycle,
                   now, console, dedupObs>>

\* main.ts:170-181 and 100-103: a wallet that is not fresh yields null; a fresh
\* one yields a suspect, once the market's metadata is at hand.
Classify ==
    /\ pc = "classify"
    /\ LET trade == aggressiveTrades[idx]
       IN  IF IsFresh(userStats.uniqueMarkets, MAX_UNIQUE_MARKETS)
           THEN IF ~MarketCached(marketCache, trade.market)
                THEN /\ pc' = "fetchMarket"
                     /\ http' = "pending"
                     /\ UNCHANGED <<idx, suspects>>
                ELSE /\ suspects' = Append(suspects,
                                       MkSuspect(trade, userStats, marketCache[trade.market]))
                     /\ idx' = idx + 1
                     /\ pc' = "analyze"
                     /\ http' = "idle"
           ELSE /\ idx' = idx + 1
                /\ pc' = "analyze"
                /\ http' = "idle"
                /\ UNCHANGED suspects
    /\ UNCHANGED <<state, config, trades, newTrades, aggressiveTrades, aidx, now,
                   userStats, clock, console, retryObs, dedupObs, cacheObs>>

\* MarketFetched storing an entry only for a fetch that succeeded.
MarketFetchedForgetsFailure ==
    /\ pc = "fetchMarket"
    /\ RetryReturns
    /\ LET trade == aggressiveTrades[idx]
       IN  \E market \in (IF http = "ok" THEN MarketAnswers(trade.market) ELSE {NULL}) :
            /\ marketCache' = IF http = "ok"
                              THEN MapSet(marketCache, trade.market, market)
                              ELSE marketCache
            /\ suspects' = Append(suspects, MkSuspect(trade, userStats, market))
    /\ idx' = idx + 1
    /\ pc' = "analyze"
    /\ UNCHANGED <<processedTradeIds, userStatsCache, pollCount, isRunning, config,
                   trades, newTrades, aggressiveTrades, aidx, now, userStats, console,
                   dedupObs, cacheObs>>

\* part_002:273-288 and main.ts:177-178, 183-225: fetchMarketDetails returns the
\* record, or null (no match, or a failure); it is cached and the suspect built.
MarketFetched ==
    /\ pc = "fetchMarket"
    /\ RetryReturns
    /\ LET trade == aggressiveTrades[idx]
       IN  \E market \in (IF http = "ok" THEN MarketAnswers(trade.market) ELSE {NULL}) :
            /\ marketCache' = MapSet(marketCache, trade.market, market)
            /\ suspects' = Append(suspects, MkSuspect(trade, userStats, market))
    /\ idx' = idx + 1
    /\ pc' = "analyze"
    /\ UNCHANGED <<processedTradeIds, userStatsCache, pollCount, isRunning, config,
                   trades, newTrades, aggressiveTrades, aidx, now, userStats, console,
                   dedupObs, cacheObs>>

\* An exception that leaves pollTrades uncaught: main rejects and main().catch
\* (main.ts:358-361) exits the process.
PollErrorEscapes == "crashed"

\* PollErrorCaught with main's loop ending at the first failed cycle.
PollErrorStops == "stopped"

\* main.ts:119-121 and 336-343: the exception is caught and logged, pollTrades
\* returns, and main goes on to its test of isRunning.
PollErrorCaught == IF isRunning THEN "sleep" ELSE "stopped"

\* part_002:202-212 and main.ts:59-62, 119-121: the feed answers 200 with a body
\* that is no array (an object); fetchRecentTrades returns it and trades.filter
\* throws a TypeError, which the catch of pollTrades logs.
TradesMalformed ==
    /\ pc = "fetchTrades"
    /\ http = "ok"
    /\ RetryReturns
    /\ console' = Append(console, [kind |-> "poll-error"])
    /\ pc' = PollErrorCaught
    /\ UNCHANGED <<processedTradeIds, userStatsCache, marketCache, pollCount, isRunning,
                   config, cycle, now, userStats, dedupObs, cacheObs>>

\* ActivityMalformed with the exception caught around the one trade: the
\* trade is dropped and the batch goes on.
ActivityMalformedSkipsTrade ==
    /\ pc = "fetchActivity"
    /\ http = "ok"
    /\ RetryReturns
    /\ console' = Append(console, [kind |-> "poll-error"])
    /\ pc' = "analyze"
    /\ idx' = idx + 1
    /\ UNCHANGED <<processedTradeIds, userStatsCache, marketCache, pollCount, isRunning,
                   config, trades, newTrades, aggressiveTrades, suspects, aidx, now,
                   userStats, dedupObs, cacheObs>>

\* part_002:222-263 and main.ts:154-155, 119-121: the activity service answers 200
\* with a body that is no array (an object); calculateUserStats iterates it and
\* throws a TypeError, which leaves analyzeTrade and is logged by the catch of
\* pollTrades.
ActivityMalformed ==
    /\ pc = "fetchActivity"
    /\ http = "ok"
    /\ RetryReturns
    /\ console' = Append(console, [kind |-> "poll-error"])
    /\ pc' = PollErrorCaught
    /\ UNCHANGED <<processedTradeIds, userStatsCache, marketCache, pollCount, isRunning,
                   config, cycle, now, userStats, dedupObs, cacheObs>>

\* LogSummary with the summary line left out.
LogSummarySilent ==
    /\ pc = "analyze"
    /\ idx > Len(aggressiveTrades)
    /\ aidx' = 1
    /\ pc' = "alert"
    /\ UNCHANGED <<state, config, trades, newTrades, aggressiveTrades, idx, suspects,
                   now, userStats, http, clock, console, retryObs, dedupObs, cacheObs>>

\* main.ts:105-112: every aggressive trade is analyzed; the summary is logged.
LogSummary ==
    /\ pc = "analyze"
    /\ idx > Len(aggressiveTrades)
    /\ console' = Append(console,
                     [kind |-> "summary", poll |-> pollCount, trades |-> Len(trades),
                      new |-> Len(newTrades), aggressive |-> Len(aggressiveTrades),
                      suspects |-> Len(suspects)])
    /\ aidx' = 1
    /\ pc' = "alert"
    /\ UNCHANGED <<state, config, trades, newTrades, aggressiveTrades, idx, suspects,
                   now, userStats, http, clock, retryObs, dedupObs, cacheObs>>

\* main.ts:115-116 and 235-296: the next suspect's alert is written to the
\* console; when a webhook is configured the embed is built, which throws on
\* a match_time that is no date, and the webhook is posted to.
AlertSuspect ==
    /\ pc = "alert"
    /\ aidx <= Len(suspects)
    /\ alertCount' = Bump(alertCount, suspects[aidx].trade.id)
    /\ IF DISCORD_WEBHOOK_URL = ""
       THEN /\ console' = Append(console, [kind |-> "alert", suspect |-> suspects[aidx]])
            /\ pc' = "alert"
            /\ http' = "idle"
            /\ aidx' = aidx + 1
       ELSE IF ToISOStringThrows(suspects[aidx].trade.match_time)
       THEN /\ console' = console \o <<[kind |-> "alert", suspect |-> suspects[aidx]],
                                       [kind |-> "poll-error"]>>
            /\ pc' = PollErrorCaught
            /\ http' = "idle"
            /\ aidx' = aidx
       ELSE /\ console' = Append(console, [kind |-> "alert", suspect |-> suspects[aidx]])
            /\ pc' = "webhook"
            /\ http' = "pending"
            /\ aidx' = aidx
    /\ UNCHANGED <<state, config, trades, newTrades, aggressiveTrades, idx, suspects,
                   now, userStats, clock, retryObs, seenIds, newCycles, cacheObs>>

\* WebhookDone with a failed post escaping to pollTrades' catch.
WebhookDonePropagates ==
    /\ pc = "webhook"
    /\ http \in {"ok", "throttled", "error"}
    /\ http' = "idle"
    /\ console' = IF http = "ok" THEN console
                  ELSE Append(console, [kind |-> "poll-error"])
    /\ aidx' = IF http = "ok" THEN aidx + 1 ELSE aidx
    /\ pc' = IF http = "ok" THEN "alert" ELSE PollErrorCaught
    /\ UNCHANGED <<state, config, trades, newTrades, aggressiveTrades, idx, suspects,
                   now, userStats, clock, retryObs, dedupObs, cacheObs>>

\* main.ts:298-304: the post succeeded, or its failure (a 429 is one) is logged.
WebhookDone ==
    /\ pc = "webhook"
    /\ http \in {"ok", "throttled", "error"}
    /\ http' = "idle"
    /\ console' = IF http = "ok" THEN console
                  ELSE Append(console, [kind |-> "webhook-error"])
    /\ aidx' = aidx + 1
    /\ pc' = "alert"
    /\ UNCHANGED <<state, config, trades, newTrades, aggressiveTrades, idx, suspects,
                   now, userStats, clock, retryObs, dedupObs, cacheObs>>

\* PollReturns with main not awaiting the end of the classification and alert
\* loops.
PollReturnsEarly ==
    /\ pc \in {"analyze", "alert"}
    /\ pc' = IF isRunning THEN "sleep" ELSE "stopped"
    /\ UNCHANGED <<state, config, cycle, now, userStats, http, clock, console,
                   retryObs, dedupObs, cacheObs>>

\* main.ts:117-122 and 336-343: pollTrades returns to main, which sleeps while
\* isRunning holds and stops otherwise.
PollReturns ==
    /\ pc = "alert"
    /\ aidx > Len(suspects)
    /\ pc' = IF isRunning THEN "sleep" ELSE "stopped"
    /\ UNCHANGED <<state, config, cycle, now, userStats, http, clock, console,
                   retryObs, dedupObs, cacheObs>>

\* SleepDone without the test of isRunning after the sleep.
SleepDoneIgnoresFlag(polls, timed) ==
    /\ pc = "sleep"
    /\ Elapses(POLL_INTERVAL_MS, timed)
    /\ BeginPoll(polls)

\* main.ts:337-340: the timer fires; the next poll starts if isRunning holds.
SleepDone(polls, timed) ==
    /\ pc = "sleep"
    /\ Elapses(POLL_INTERVAL_MS, timed)
    /\ IF isRunning
       THEN BeginPoll(polls)
       ELSE /\ pc' = "stopped"
            /\ UNCHANGED <<state, config, cycle, now, userStats, http, console,
                           retryObs, dedupObs, cacheObs>>

\* main.ts:347-355: SIGINT or SIGTERM arrives while the process waits on I/O.
Signal ==
    /\ pc \notin {"init", "stopped"}
    /\ isRunning
    /\ isRunning' = FALSE
    /\ UNCHANGED <<processedTradeIds, userStatsCache, marketCache, pollCount,
                   currentBackoff, config, pc, cycle, now, userStats, http, clock,
                   console, retryObs, dedupObs, cacheObs>>

\* The steps of the process in its first `polls` cycles, against an upstream
\* that serves trades of `feed` and activity histories of `payloads` and answers
\* after a time in `durations`.
Pipeline(feed, payloads, durations, polls, timed) ==
    \/ Start(polls)
    \/ UpstreamOk(durations)
    \/ UpstreamFails(durations)
    \/ TradesFetched(feed)
    \/ AnalyzeTrade
    \/ ActivityFetched(payloads)
    \/ Classify
    \/ MarketFetched
    \/ LogSummary
    \/ AlertSuspect
    \/ PollReturns
    \/ SleepDone(polls, timed)

\* The upstream throttles.
Throttling(durations, timed) ==
    \/ UpstreamThrottles(durations)
    \/ RetryThrottled(timed)

Next ==
    \/ Pipeline(FeedOf(1..6), ActivityPayloads, Instant, MaxPolls, TRUE)
    \/ WebhookDone
    \/ Signal

Spec == Init /\ [][Next]_vars

\* No webhook is configured (config.ts default): sendDiscordAlert returns at
\* its first test and no post is ever made.
InitNoWebhook ==
    /\ InitState
    /\ MAX_UNIQUE_MARKETS = DEFAULT_MAX_UNIQUE_MARKETS
    /\ DISCORD_WEBHOOK_URL = ""

\* The feed narrowed to one eligible trade among trades the filters drop, over
\* enough cycles of enough identifiers for the processed-ID set to pass its cap
\* by a whole batch.
NextDedup == Pipeline(FeedOf({1, 3, 4, 5, 6, 9}), {TradesOn(1)}, Instant, DedupPolls, TRUE)

SpecDedup == InitNoWebhook /\ [][NextDedup]_vars

\* The feed narrowed to eligible trades of three wallets, with calls that take
\* time.
NextCache == Pipeline(FeedOf({1, 2, 7, 8}), {TradesOn(1)}, CallDurations, MaxPolls, TRUE)

SpecCache == InitNoWebhook /\ [][NextCache]_vars

\* part_002:206, 233, 281: a request without an answer fails when its timeout
\* of 10 s runs out.
REQUEST_TIMEOUT_MS == 10000
TimedOut == {REQUEST_TIMEOUT_MS}

\* Two eligible trades of two wallets on one market, against an upstream whose
\* answers come at once and whose failures are timeouts.
NextMetadata ==
    \/ Start(MaxPolls)
    \/ UpstreamOk(Instant)
    \/ UpstreamFails(TimedOut)
    \/ TradesFetched(FeedOf({1, 7}))
    \/ AnalyzeTrade
    \/ ActivityFetched({TradesOn(1)})
    \/ Classify
    \/ MarketFetched
    \/ LogSummary
    \/ AlertSuspect
    \/ PollReturns
    \/ SleepDone(MaxPolls, TRUE)

SpecMetadata == InitNoWebhook /\ [][NextMetadata]_vars

\* A throttling upstream, the feed narrowed to one eligible trade.
NextRetry ==
    \/ Pipeline(FeedOf({1}), {TradesOn(1)}, Instant, MaxPolls, TRUE)
    \/ Throttling(Instant, TRUE)
    \/ Signal

SpecRetry == InitNoWebhook /\ [][NextRetry]_vars

\* Upstreams that answer with bodies the program cannot use, and a trade whose
\* match_time is no date, with and without a webhook.
NextFaults ==
    \/ Pipeline(FeedOf({1, 10}), {TradesOn(1)}, Instant, MaxPolls, TRUE)
    \/ WebhookDone
    \/ TradesMalformed
    \/ ActivityMalformed
    \/ Signal

SpecFaults == Init /\ [][NextFaults]_vars

\* The steps of the process and of a throttling upstream, the clock left out.
LiveSteps ==
    \/ Pipeline(FeedOf({1}), {TradesOn(1)}, Instant, MaxPolls, FALSE)
    \/ Throttling(Instant, FALSE)
    \/ TradesMalformed
    \/ ActivityMalformed

NextLive == LiveSteps \/ Signal

\* The event loop runs every continuation that is ready, every timer fires, and
\* every HTTP call is answered (axios times out after 10 s: part_002:205, 233,
\* 279); which answer the upstream gives is its choice.
SpecLive == InitNoWebhook /\ [][NextLive]_vars /\ WF_vars(LiveSteps)

\* analyzeTrade's classification (main.ts:170-229) from every state the lookup
\* of a wallet can leave it in: any market count, any trade value that passed
\* the filters, any configured ceiling, the market cached or not.
ClassifySizes == {"1000", "4999", "5000", "6000", "100000"}

InitClassify ==
    /\ \E sz \in ClassifySizes, n \in 0..MaxMarkets :
        LET trade == MkTrade(1, "m1", "BUY", "w1", "1", sz)
        IN  /\ trades = <<trade>>
            /\ newTrades = <<trade>>
            /\ aggressiveTrades = AggressiveTrades(LargeTrades(WithValue(<<trade>>)))
            /\ userStats = [uniqueMarkets |-> n, totalTrades |-> n]
            /\ userStatsCache = StoreStats(<<>>, "w1", userStats, 0)
            /\ lastFetch = MapSet(EmptyMap, "w1", userStatsCache[1])
    /\ MAX_UNIQUE_MARKETS \in 0..MaxMarkets
    /\ DISCORD_WEBHOOK_URL = ""
    /\ marketCache \in {EmptyMap, MapSet(EmptyMap, "m1", MarketRecord("m1")),
                        MapSet(EmptyMap, "m1", NULL)}
    /\ pollCount \in 1..MaxPolls
    /\ processedTradeIds = <<1>>
    /\ isRunning = TRUE
    /\ currentBackoff = INITIAL_BACKOFF_MS
    /\ pc = "classify"
    /\ idx = 1 /\ suspects = <<>> /\ aidx = 1
    /\ now = 0
    /\ http = "idle"
    /\ clock = 0
    /\ console = <<>>
    /\ lastSleep = 0 /\ throttles = 0
    /\ seenIds = {1}
    /\ newCycles = [i \in Ids |-> IF i = 1 THEN 1 ELSE 0]
    /\ alertCount = [i \in Ids |-> 0]
    /\ lookup = [wallet |-> "w1", cached |-> FALSE, hasPrior |-> FALSE,
                 prior |-> NoEntry, fetches |-> 1,
                 activities |-> TradesOn(userStats.uniqueMarkets)]

NextClassify ==
    \/ Classify
    \/ UpstreamOk(Instant)
    \/ UpstreamFails(Instant)
    \/ MarketFetched
    \/ LogSummary
    \/ AlertSuspect
    \/ PollReturns

SpecClassify == InitClassify /\ [][NextClassify]_vars

\* calculateTradeValue (part_002:307-311) as main.ts:78-81 applies it, on one
\* new trade whose price and size are each a number the feed can carry, the
\* string Infinity, or a string that is no number (the empty one among them).
PriceStrings == {"0", "1", "999", "1000", "Infinity", "abc", ""}
SizeStrings == {"0", "1", "999", "1000", "4999", "5000", "6000", "100000",
                "Infinity", "abc", ""}

InitValue ==
    /\ \E price \in PriceStrings, size \in SizeStrings :
        LET trade == MkTrade(1, "m1", "BUY", "w1", price, size)
        IN  /\ trades = <<trade>>
            /\ newTrades = <<trade>>
    /\ aggressiveTrades = <<>>
    /\ MAX_UNIQUE_MARKETS = DEFAULT_MAX_UNIQUE_MARKETS
    /\ DISCORD_WEBHOOK_URL = ""
    /\ processedTradeIds = <<1>>
    /\ userStatsCache = <<>>
    /\ marketCache = EmptyMap
    /\ pollCount = 1
    /\ isRunning = TRUE
    /\ currentBackoff = INITIAL_BACKOFF_MS
    /\ pc = "value"
    /\ idx = 1 /\ suspects = <<>> /\ aidx = 1
    /\ now = 0 /\ userStats = NoStats
    /\ http = "idle"
    /\ clock = 0
    /\ console = <<>>
    /\ lastSleep = 0 /\ throttles = 0
    /\ seenIds = {1}
    /\ newCycles = [i \in Ids |-> IF i = 1 THEN 1 ELSE 0]
    /\ alertCount = [i \in Ids |-> 0]
    /\ lastFetch = EmptyMap /\ lookup = NoLookup

\* main.ts:78-81: the value is attached to every new trade; the list is the
\* one the filters of main.ts:84-93 are then applied to.
AttachValues ==
    /\ pc = "value"
    /\ aggressiveTrades' = WithValue(newTrades)
    /\ pc' = "valued"
    /\ UNCHANGED <<state, config, trades, newTrades, idx, suspects, aidx, now,
                   userStats, http, clock, console, retryObs, dedupObs, cacheObs>>

NextValue == AttachValues

SpecValue == InitValue /\ [][NextValue]_vars

\* maskAddress (part_002:297-300) as alertSuspect applies it to the wallet of
\* a suspect (main.ts:245), and applied once more to what it returned, on every
\* string of up to MaxAddress characters over a letter and the dot.
MaxAddress == 12

Addresses == UNION {[1..n -> {"a", "."}] : n \in 0..MaxAddress}

InitMask ==
    /\ lookup \in {[NoLookup EXCEPT !.wallet = address] : address \in Addresses}
    /\ trades = <<>> /\ newTrades = <<>> /\ aggressiveTrades = <<>>
    /\ MAX_UNIQUE_MARKETS = DEFAULT_MAX_UNIQUE_MARKETS
    /\ DISCORD_WEBHOOK_URL = ""
    /\ processedTradeIds = <<>>
    /\ userStatsCache = <<>>
    /\ marketCache = EmptyMap
    /\ pollCount = 1
    /\ isRunning = TRUE
    /\ currentBackoff = INITIAL_BACKOFF_MS
    /\ pc = "mask"
    /\ idx = 1 /\ suspects = <<>> /\ aidx = 1
    /\ now = 0 /\ userStats = NoStats
    /\ http = "idle"
    /\ clock = 0
    /\ console = <<>>
    /\ lastSleep = 0 /\ throttles = 0
    /\ seenIds = {} /\ newCycles = [i \in Ids |-> 0] /\ alertCount = [i \in Ids |-> 0]
    /\ lastFetch = EmptyMap

\* main.ts:245-252: the wallet is masked and written to the console.
MaskWallet ==
    /\ pc = "mask"
    /\ console' = Append(console, [kind |-> "wallet", text |-> maskAddress(lookup.wallet)])
    /\ pc' = "masked"
    /\ UNCHANGED <<state, config, cycle, now, userStats, http, clock, retryObs,
                   dedupObs, cacheObs>>

\* The string written is masked again and written too.
MaskAgain ==
    /\ pc = "masked"
    /\ console' = Append(console, [kind |-> "wallet", text |-> maskAddress(console[1].text)])
    /\ pc' = "remasked"
    /\ UNCHANGED <<state, config, cycle, now, userStats, http, clock, retryObs,
                   dedupObs, cacheObs>>

NextMask == MaskWallet \/ MaskAgain

SpecMask == InitMask /\ [][NextMask]_vars

\* calculateUserStats (part_002:245-263) on every activity list of up to
\* MaxActivities records, each a trade or a deposit, with or without a side,
\* on one of two markets: the answer to the lookup of one wallet has arrived.
MaxActivities == 3

StatsRecords ==
    {MkActivity(type, side, market) :
        type \in {"trade", "deposit"}, side \in {"", "BUY"}, market \in {1, 2}}

StatsPayloads == UNION {[1..n -> StatsRecords] : n \in 0..MaxActivities}

InitStats ==
    /\ LET trade == MkTrade(1, "m1", "BUY", "w1", "1", "6000")
       IN  /\ trades = <<trade>>
           /\ newTrades = <<trade>>
           /\ aggressiveTrades = AggressiveTrades(LargeTrades(WithValue(<<trade>>)))
    /\ MAX_UNIQUE_MARKETS = DEFAULT_MAX_UNIQUE_MARKETS
    /\ DISCORD_WEBHOOK_URL = ""
    /\ processedTradeIds = <<1>>
    /\ userStatsCache = <<>>
    /\ marketCache = EmptyMap
    /\ pollCount = 1
    /\ isRunning = TRUE
    /\ currentBackoff = INITIAL_BACKOFF_MS
    /\ pc = "fetchActivity"
    /\ idx = 1 /\ suspects = <<>> /\ aidx = 1
    /\ now = 0 /\ userStats = NoStats
    /\ http = "ok"
    /\ clock = 0
    /\ console = <<>>
    /\ lastSleep = 0 /\ throttles = 0
    /\ seenIds = {1}
    /\ newCycles = [i \in Ids |-> IF i = 1 THEN 1 ELSE 0]
    /\ alertCount = [i \in Ids |-> 0]
    /\ lastFetch = EmptyMap
    /\ lookup = [NoLookup EXCEPT !.wallet = "w1", !.fetches = 1]

NextStats == ActivityFetched(StatsPayloads)

SpecStats == InitStats /\ [][NextStats]_vars

(***************************************************************************)
(* Properties                                                              *)
(***************************************************************************)
Alerts == SelectSeq(console, LAMBDA r : r.kind = "alert")

HasClause(reason, text) == \E i \in 1..Len(reason) : reason[i].text = text

\* C1: while fewer identifiers than the processed-ID cap have been served in
\* total, no identifier is a new trade in more than one cycle and no identifier
\* gets a second alert, whatever the feed serves (a batch may repeat one).
C1_NoDuplicateAlert ==
    Cardinality(seenIds) < ProcessedCap =>
        \A id \in Ids : newCycles[id] <= 1 /\ alertCount[id] <= 1

\* C2: the identifiers of all new trades of the cycle are in the processed-ID
\* set in every state from the dedup step on, so before any wallet lookup,
\* metadata lookup or alert of the cycle.
C2_NewIdsProcessedFirst ==
    \A i \in 1..Len(newTrades) : newTrades[i].id \in Range(processedTradeIds)

\* A wallet lookup is in flight in a cycle whose dedup step evicted identifiers.
C2_Witness ==
    /\ pc = "fetchActivity"
    /\ newTrades # <<>>
    /\ Len(processedTradeIds) < Cardinality(seenIds)

\* The outcome of analyzeTrade for the one trade of SpecClassify.
Decided == pc = "analyze" /\ idx = 2
Outcome == IF Len(suspects) = 0 THEN "NONE" ELSE suspects[1].alertLevel

\* The tiers as the specification lists them, with the ceiling 5.
SpecTier(uniqueMarkets, valueUsd) ==
    IF uniqueMarkets <= 2 /\ valueUsd >= 5000 THEN "HIGH"
    ELSE IF uniqueMarkets <= 1 THEN "HIGH"
    ELSE IF uniqueMarkets <= 3 THEN "MEDIUM"
    ELSE IF uniqueMarkets <= 5 THEN "LOW"
    ELSE "NONE"

\* C3: with the default ceiling 5 the outcome is the specification's tier of
\* (uniqueMarkets, valueUsd), whatever the market cache and the poll count.
C3_DefaultTiers ==
    (Decided /\ MAX_UNIQUE_MARKETS = 5) =>
        Outcome = SpecTier(userStats.uniqueMarkets, aggressiveTrades[1].valueUsd.v)

\* Two markets and $4,999 fall to the MEDIUM tier.
C3_Witness ==
    /\ Decided
    /\ MAX_UNIQUE_MARKETS = 5
    /\ userStats.uniqueMarkets = 2
    /\ aggressiveTrades[1].valueUsd = Num(4999)
    /\ Outcome = "MEDIUM"

\* The first three tiers for a trade of value v by a wallet of n markets.
FirstTiers(n, v) ==
    /\ ((n <= 2 /\ v >= 5000) \/ n <= 1) => Outcome = "HIGH"
    /\ n <= 3 => Outcome \in {"HIGH", "MEDIUM"}

\* C4 as claimed: for every ceiling the HIGH and MEDIUM tiers decide before the
\* ceiling is compared.
C4_TiersBeforeCeiling ==
    Decided => FirstTiers(userStats.uniqueMarkets, aggressiveTrades[1].valueUsd.v)

\* C4 as amended: for every ceiling, a wallet above the ceiling yields no alert,
\* and for a wallet at or below it the tiers decide in order.
C4_CeilingThenTiers ==
    Decided =>
        IF userStats.uniqueMarkets <= MAX_UNIQUE_MARKETS
        THEN /\ FirstTiers(userStats.uniqueMarkets, aggressiveTrades[1].valueUsd.v)
             /\ userStats.uniqueMarkets > 3 => Outcome = "LOW"
        ELSE Outcome = "NONE"

\* A ceiling other than the default: a wallet of one market under ceiling 1.
C4_Witness ==
    /\ Decided
    /\ MAX_UNIQUE_MARKETS = 1
    /\ userStats.uniqueMarkets = 1
    /\ Outcome = "HIGH"

\* The cycle has dispatched its alerts and returned to main.
CycleDone == pc \in {"sleep", "stopped"}

\* The cycle had exactly one new trade: a BUY of $6,000 by a wallet whose
\* history is one market.
OneFreshLargeBuy ==
    /\ Len(newTrades) = 1
    /\ newTrades[1].side = "BUY"
    /\ newTrades[1].owner # ""
    /\ calculateTradeValue(newTrades[1]) = Num(6000)
    /\ lookup.wallet = newTrades[1].owner
    /\ userStats.uniqueMarkets = 1

OneHighAlert ==
    /\ Len(Alerts) = 1
    /\ Alerts[1].suspect.alertLevel = "HIGH"
    /\ Alerts[1].suspect.trade.id = newTrades[1].id
    /\ \E i \in 1..Len(Alerts[1].suspect.reason) :
        /\ Alerts[1].suspect.reason[i].text = "Fresh Wallet (n lifetime markets)"
        /\ Alerts[1].suspect.reason[i].n = 1

\* C5 as claimed: that cycle ends with one HIGH alert whose reason holds the
\* market count and the brand-new-wallet clause.
C5_BrandNewReason ==
    (CycleDone /\ OneFreshLargeBuy) =>
        /\ OneHighAlert
        /\ HasClause(Alerts[1].suspect.reason, "Brand New Wallet")

\* C5 as amended: that cycle ends with one HIGH alert whose reason holds the
\* market count and the large-position clause, and no brand-new-wallet clause.
C5_LargePositionReason ==
    (CycleDone /\ OneFreshLargeBuy) =>
        /\ OneHighAlert
        /\ HasClause(Alerts[1].suspect.reason, "Large Position ($n)")
        /\ ~HasClause(Alerts[1].suspect.reason, "Brand New Wallet")

C5_Witness == CycleDone /\ OneFreshLargeBuy /\ Len(Alerts) = 1

\* A trade with its value attached is eligible.
Eligible(trade) ==
    /\ trade.side = "BUY"
    /\ trade.owner # ""
    /\ trade.valueUsd =
            Num(OrZero(ParseFloat(trade.price)).v * OrZero(ParseFloat(trade.size)).v)
    /\ trade.valueUsd.v >= MIN_TRADE_SIZE_USD

Schedule(k) ==
    IF INITIAL_BACKOFF_MS * 2 ^ (k - 1) <= MAX_BACKOFF_MS
    THEN INITIAL_BACKOFF_MS * 2 ^ (k - 1)
    ELSE MAX_BACKOFF_MS

\* C7: the k-th throttling answer since the last success (or the start) sleeps
\* Schedule(k): 1000, 2000, ..., 32000, 60000, 60000, ...; after a success the
\* next one sleeps the floor.
C7_BackoffSchedule ==
    /\ throttles >= 1 => lastSleep = Schedule(throttles)
    /\ currentBackoff = Schedule(throttles + 1)

\* The eighth throttling answer in a row: the second sleep at the ceiling.
C7_Witness == throttles = 8 /\ lastSleep = MAX_BACKOFF_MS

\* One step of a fetch, by the answer it holds.
FetchStep ==
    pc \in FetchPcs =>
        /\ http = "throttled" => (pc' = pc /\ http' \in {"throttled", "pending"})
        /\ pc' # pc => (http \in {"ok", "error"} /\ http' = "idle")
        /\ http \in {"ok", "error"} => (pc' # pc \/ UNCHANGED <<pc, http, cycle>>)

\* C8: a fetch that got a 429 stays in the fetch and calls again; a fetch
\* returns only on a success or a failure that is not a 429, and on such an
\* answer it returns in its next step.
C8_ThrottlingNeverReturns == [][FetchStep]_vars

\* The metadata fetch calls again after three 429 answers.
C8_Witness == pc = "fetchMarket" /\ http = "pending" /\ throttles >= 3

\* What each fetch's caller holds after a null result.
NullResult ==
    CASE pc = "fetchTrades" -> pc' = "analyze" /\ trades' = <<>>
      [] pc = "fetchActivity" -> pc' = "classify" /\ userStats' = NoStats
      [] pc = "fetchMarket" ->
            /\ pc' = "analyze"
            /\ marketCache'[aggressiveTrades[idx].market] = NULL
            /\ suspects'[Len(suspects')].market = NULL

\* One step of a fetch that holds a failure that is not a 429.
FailureStep ==
    (pc \in FetchPcs /\ http = "error") =>
        \/ UNCHANGED <<pc, http, cycle, clock, currentBackoff>>
        \/ /\ http' = "idle"
           /\ NullResult
           /\ UNCHANGED <<clock, currentBackoff, lastSleep, throttles>>

\* C9: on a failure that is not a 429 the fetch returns in its next step, with
\* a null result ([] for trades and activities), without a sleep, a retry or a
\* change of the backoff, and the caller goes on as after any return.
C9_FailureReturnsNull == [][FailureStep]_vars

\* The activity fetch failed after a 429: the stats are those of no history.
C9_Witness ==
    /\ pc = "classify"
    /\ lookup.fetches = 1
    /\ currentBackoff > INITIAL_BACKOFF_MS
    /\ userStats = NoStats

\* A wallet lookup has returned its stats.
LookupDone == pc = "classify"

StatsOf(entry) ==
    [uniqueMarkets |-> entry.uniqueMarkets, totalTrades |-> entry.totalTrades]

\* The lookup started within the TTL of the wallet's last lookup that fetched.
WithinTTL == lookup.hasPrior /\ (now - lookup.prior.timestamp) < USER_CACHE_TTL_MS

\* The lookup fetched once and stored what it got, stamped with its start.
FetchedAndStored ==
    /\ lookup.fetches = 1
    /\ CacheHas(userStatsCache, lookup.wallet)
    /\ StatsOf(CacheGet(userStatsCache, lookup.wallet)) = userStats
    /\ CacheGet(userStatsCache, lookup.wallet).timestamp = now

\* C10 as claimed: a lookup within the TTL of the wallet's last fetching lookup
\* fetches nothing and returns that lookup's stats; one after the TTL fetches
\* once and replaces the entry.
C10_TTLWindow ==
    LookupDone =>
        /\ WithinTTL => (lookup.fetches = 0 /\ userStats = StatsOf(lookup.prior))
        /\ (lookup.hasPrior /\ ~WithinTTL) => FetchedAndStored

\* C10 as amended: the same, for a wallet whose entry is still in the cache;
\* a wallet whose entry was evicted is fetched again.
C10_TTLWindowWhileCached ==
    LookupDone =>
        /\ (WithinTTL /\ lookup.cached) =>
                (lookup.fetches = 0 /\ userStats = StatsOf(lookup.prior))
        /\ (lookup.hasPrior /\ ~(WithinTTL /\ lookup.cached)) => FetchedAndStored

\* A second lookup of a wallet, later than the first and within its TTL.
C10_Witness ==
    /\ LookupDone
    /\ WithinTTL
    /\ lookup.cached
    /\ now > lookup.prior.timestamp
    /\ lookup.fetches = 0

CachedWallets(cache) == {cache[i].wallet : i \in 1..Len(cache)}

\* One step on the wallet-history cache: only a store of a wallet that has no
\* entry, into a cache at its cap, removes an entry, and it removes one.
StatsCacheStep ==
    userStatsCache' # userStatsCache =>
        /\ pc = "fetchActivity" /\ pc' = "classify"
        /\ lookup.wallet \in CachedWallets(userStatsCache')
        /\ Cardinality(CachedWallets(userStatsCache) \ CachedWallets(userStatsCache')) =
              IF /\ Len(userStatsCache) = StatsCacheCap
                 /\ lookup.wallet \notin CachedWallets(userStatsCache)
              THEN 1 ELSE 0

\* C11: the wallet-history cache never holds more entries than its cap, after
\* any sequence of lookups; a store that would take it above the cap evicts
\* exactly one entry, and no other step evicts.
C11_StatsCacheBounded ==
    /\ [](Len(userStatsCache) <= StatsCacheCap)
    /\ [][StatsCacheStep]_vars

\* A lookup of a third wallet has just stored its entry in a full cache.
C11_Witness ==
    /\ pc = "classify"
    /\ lookup.fetches = 1
    /\ Len(userStatsCache) = StatsCacheCap
    /\ Cardinality(DOMAIN lastFetch) > StatsCacheCap
    /\ lookup.wallet \in CachedWallets(userStatsCache)

\* C12: the processed-ID set never holds more identifiers than its cap once
\* the dedup step of a cycle is done, for every sequence of batches of at most
\* MaxBatch trades (half of what an eviction removes, as 100 is below 5,000).
C12_ProcessedBounded == Len(processedTradeIds) <= ProcessedCap

\* The dedup step is done in a cycle in which more identifiers have been
\* served than the cap allows.
C12_Witness ==
    /\ pc = "analyze"
    /\ idx = 1
    /\ Cardinality(seenIds) > ProcessedCap
    /\ Len(processedTradeIds) < Cardinality(seenIds)

NewIds(new) == {new[i].id : i \in 1..Len(new)}

\* The dedup step of a cycle, by the size the set reaches when the batch's new
\* identifiers are added.
DedupStep ==
    (pc = "fetchTrades" /\ pc' = "analyze") =>
        LET old == processedTradeIds
            added == Range(old) \cup NewIds(newTrades')
            kept == Range(processedTradeIds')
        IN  IF Cardinality(added) > ProcessedCap
            THEN /\ added \ kept = {old[i] : i \in 1..ProcessedEvict}
                 /\ Len(processedTradeIds') = Cardinality(added) - ProcessedEvict
                 /\ SubSeq(processedTradeIds', 1, Len(old) - ProcessedEvict) =
                        SubSeq(old, ProcessedEvict + 1, Len(old))
            ELSE /\ kept = added
                 /\ SubSeq(processedTradeIds', 1, Len(old)) = old

MarketStep ==
    /\ \A m \in DOMAIN marketCache :
            m \in DOMAIN marketCache' /\ marketCache'[m] = marketCache[m]
    /\ (pc # "fetchMarket" /\ pc' = "fetchMarket") =>
            aggressiveTrades[idx].market \notin DOMAIN marketCache
    /\ (pc = "fetchMarket" /\ pc' # "fetchMarket") =>
            aggressiveTrades[idx].market \in DOMAIN marketCache'
    /\ (pc = "classify" /\ pc' = "analyze" /\ Len(suspects') > Len(suspects)) =>
            /\ aggressiveTrades[idx].market \in DOMAIN marketCache
            /\ suspects'[Len(suspects')].market = marketCache[aggressiveTrades[idx].market]
            /\ http' = "idle"

\* C14: a metadata fetch starts only for a market without an entry and ends
\* with the market's entry stored (a record or null); an entry is never
\* changed or removed; a lookup of a market with an entry, a null one included,
\* answers from the cache without a call.  So no market is fetched twice.
C14_MarketFetchedOnce == [][MarketStep]_vars

\* Two suspects of one cycle on one market whose entry is a null.
C14_Witness ==
    /\ pc = "analyze"
    /\ Len(suspects) = 2
    /\ suspects[1].trade.market = suspects[2].trade.market
    /\ suspects[2].market = NULL
    /\ marketCache[suspects[2].trade.market] = NULL

\* The wallet of the trade being classified passes the freshness test.
PassesFreshness == userStats.uniqueMarkets <= MAX_UNIQUE_MARKETS

\* One step of analyzeTrade after the wallet lookup.
LazyMarketStep ==
    /\ (pc # "fetchMarket" /\ pc' = "fetchMarket") => PassesFreshness
    /\ marketCache' # marketCache =>
            /\ PassesFreshness
            /\ pc = "fetchMarket"
            /\ DOMAIN marketCache' = DOMAIN marketCache \cup {aggressiveTrades[idx].market}
    /\ Len(suspects') > Len(suspects) =>
            /\ PassesFreshness
            /\ suspects'[Len(suspects')].trade = aggressiveTrades[idx]
    /\ (pc = "classify" /\ ~PassesFreshness) =>
            /\ pc' = "analyze"
            /\ idx' = idx + 1
            /\ http' = "idle"
            /\ UNCHANGED <<marketCache, suspects>>
    /\ (pc = "classify" /\ PassesFreshness) =>
            \/ pc' = "fetchMarket" /\ http' = "pending"
            \/ pc' = "analyze" /\ Len(suspects') = Len(suspects) + 1

\* C15: for every ceiling, the metadata cache is read, the metadata service is
\* called and an entry is added only for a trade whose wallet passes the
\* freshness test, and such a trade yields an alert record; a trade whose
\* wallet fails the test yields none, causes no call and adds no entry.
C15_MetadataOnlyForAlerts == [][LazyMarketStep]_vars

\* A trade of a wallet above the ceiling was dropped with the market cache
\* left empty.
C15_Witness ==
    /\ Decided
    /\ ~PassesFreshness
    /\ Outcome = "NONE"
    /\ marketCache = EmptyMap
    /\ http = "idle"

\* The suspect appended by the step is a HIGH one for the trade being
\* analyzed, with the stats of a wallet without history.
FlaggedWithoutHistory ==
    /\ Len(suspects') = Len(suspects) + 1
    /\ suspects'[Len(suspects')].trade = aggressiveTrades[idx]
    /\ suspects'[Len(suspects')].alertLevel = "HIGH"
    /\ suspects'[Len(suspects')].userStats.uniqueMarkets = 0
    /\ suspects'[Len(suspects')].userStats.totalTrades = 0

\* One step of the analysis of a trade whose activity fetch gave nothing.
NoHistoryStep ==
    /\ (pc = "fetchActivity" /\ http = "error" /\ pc' # pc) =>
            pc' = "classify" /\ userStats' = NoStats /\ idx' = idx
    /\ (pc = "classify" /\ lookup.fetches = 1 /\ userStats = NoStats /\ pc' # pc) =>
            \/ pc' = "fetchMarket" /\ UNCHANGED <<idx, userStats, suspects>>
            \/ pc' = "analyze" /\ FlaggedWithoutHistory
    /\ (pc = "fetchMarket" /\ lookup.fetches = 1 /\ userStats = NoStats /\ pc' # pc) =>
            pc' = "analyze" /\ FlaggedWithoutHistory
    /\ (pc \in {"fetchActivity", "classify", "fetchMarket"} /\ pc' = pc) =>
            UNCHANGED <<idx, userStats, suspects, lookup>>

\* Every suspect of the cycle was alerted, in order.
AllAlerted ==
    /\ Len(Alerts) = Len(suspects)
    /\ \A i \in 1..Len(suspects) : Alerts[i].suspect = suspects[i]

\* C16: a failed activity fetch leaves the stats of a wallet without history
\* (0 markets, 0 trades), with which the trade is classified: it becomes a
\* HIGH suspect, and every suspect of a cycle is alerted before the cycle ends.
C16_FailedLookupFlagged ==
    /\ [][NoHistoryStep]_vars
    /\ [](CycleDone => AllAlerted)

\* A cycle ended with a HIGH alert for a trade of the minimum value by a wallet
\* whose lookup fetched and got nothing.
C16_Witness ==
    /\ CycleDone
    /\ lookup.fetches = 1
    /\ userStats = NoStats
    /\ \E i \in 1..Len(Alerts) :
        /\ Alerts[i].suspect.trade.owner = lookup.wallet
        /\ Alerts[i].suspect.trade.valueUsd = Num(MIN_TRADE_SIZE_USD)
        /\ Alerts[i].suspect.userStats.uniqueMarkets = 0
        /\ Alerts[i].suspect.alertLevel = "HIGH"

\* Where pollTrades is running.
CyclePcs == {"fetchTrades", "analyze", "fetchActivity", "classify", "fetchMarket",
             "alert", "webhook"}

\* The step logs an exception caught by pollTrades.
LogsPollError ==
    /\ Len(console') > Len(console)
    /\ console'[Len(console')].kind = "poll-error"

\* One step of the loop around a cycle, failed or not.
CycleBoundaryStep ==
    /\ LogsPollError =>
            /\ pc \in CyclePcs
            /\ pc' = IF isRunning THEN "sleep" ELSE "stopped"
            /\ UNCHANGED <<processedTradeIds, userStatsCache, marketCache, pollCount,
                           isRunning>>
    /\ (pc \in CyclePcs /\ pc' \notin CyclePcs) =>
            pc' = IF isRunning THEN "sleep" ELSE "stopped"
    /\ (pc = "sleep" /\ pc' # pc) =>
            IF isRunning THEN pc' = "fetchTrades" /\ pollCount' = pollCount + 1
            ELSE pc' = "stopped"

\* C17: an exception raised in a cycle (by the feed's body, the activity body,
\* or the building of the webhook's embed) is logged by the catch of pollTrades
\* and the cycle ends as any other: the loop is at its sleep when isRunning
\* holds, from which the next cycle starts, and stopped otherwise; the process
\* never exits through main().catch.
C17_PollErrorCaught ==
    /\ [](pc # "crashed")
    /\ [][CycleBoundaryStep]_vars

\* The second cycle runs after a first one that alerted the trade whose embed
\* cannot be built, with a webhook configured.
C17_Witness ==
    /\ pc = "fetchTrades"
    /\ pollCount = 2
    /\ DISCORD_WEBHOOK_URL # ""
    /\ alertCount[10] = 1

Stopped == pc = "stopped"

CycleComplete ==
    /\ idx > Len(aggressiveTrades)
    /\ aidx > Len(suspects)
    /\ AllAlerted

\* One step of the process, by the shutdown flag.
ShutdownStep ==
    /\ ~isRunning =>
            /\ ~isRunning'
            /\ pollCount' = pollCount
            /\ pc' = "fetchTrades" => pc = "fetchTrades"
    /\ (pc # "stopped" /\ pc' = "stopped") =>
            /\ ~isRunning
            /\ pc = "sleep" \/ (pc = "alert" /\ CycleComplete)
    /\ (pc \in CyclePcs /\ pc' \notin CyclePcs) => CycleComplete
    /\ pc # "stopped"

\* C18: once isRunning is false it stays false and no cycle starts (no trade
\* fetch is issued), whether it was cleared in a cycle or in the sleep; the
\* process stops only from the sleep or at the end of a cycle that has analyzed
\* every trade and alerted every suspect; and the stopped process takes no
\* step, so it changes nothing and alerts nothing.
C18_CooperativeShutdown == [][ShutdownStep]_vars

\* The process stopped with cycles to spare, after a cycle that alerted.
C18_Witness ==
    /\ pc = "stopped"
    /\ pollCount < MaxPolls
    /\ Len(Alerts) >= 1
    /\ CycleComplete

\* The trade fetch of the very first cycle returns on a failure of the feed.
FirstFetchFails ==
    /\ pollCount = 1
    /\ pc = "fetchTrades"
    /\ http = "error"
    /\ pc' # pc

\* C20: when the feed cannot be reached on the very first cycle, the process
\* exits with a non-zero status (main().catch) instead of going on with the
\* cycle and the polling.
C20_FatalStartupFailure == [][FirstFetchFails => pc' = "crashed"]_vars

\* C21: when a cycle ends, every alert record that its classification created
\* is in the console exactly once, in whatever way the cycle ended.
C21_EveryAlertLogged == CycleDone => AllAlerted

\* The post to the webhook starts: an endpoint is configured and the console
\* already ends with the record of the alert being dispatched.
WebhookStarts ==
    (pc' = "webhook" /\ pc # "webhook") =>
        /\ DISCORD_WEBHOOK_URL # ""
        /\ console' # <<>>
        /\ console'[Len(console')] = [kind |-> "alert", suspect |-> suspects[aidx]]

\* The post to the webhook ends: a failure is logged and the alert loop goes
\* on with the next suspect.
WebhookEnds ==
    (pc = "webhook" /\ pc' # "webhook") =>
        /\ pc' = "alert"
        /\ aidx' = aidx + 1
        /\ suspects' = suspects
        /\ console' = IF http = "ok" THEN console
                      ELSE Append(console, [kind |-> "webhook-error"])

WebhookStep == WebhookStarts /\ WebhookEnds

\* C22: the webhook is posted to only when an endpoint is configured and only
\* after the alert's console record; a failed delivery is logged, the alert
\* loop continues, and the cycle ends with every alert in the console.
C22_WebhookFailureContained == [][WebhookStep]_vars /\ [](CycleDone => AllAlerted)

\* A cycle ended in which a delivery failed and a later alert was still logged.
C22_Witness ==
    /\ CycleDone
    /\ AllAlerted
    /\ \E i, j \in 1..Len(console) :
          /\ i < j
          /\ console[i].kind = "webhook-error"
          /\ console[j].kind = "alert"

\* One step of main's loop, by the cycle it is in: a cycle starts only from
\* the start of main or from the inter-cycle sleep, whose timer has run its
\* whole interval, and the sleep is entered only from a cycle that has
\* analyzed every trade and alerted every suspect, with no call in flight.
SequentialStep ==
    /\ (pollCount' # pollCount \/ (pc' = "fetchTrades" /\ pc # "fetchTrades")) =>
            /\ pollCount' = pollCount + 1
            /\ pc' = "fetchTrades"
            /\ pc \in {"init", "sleep"}
            /\ pc = "sleep" => clock' = clock + POLL_INTERVAL_MS
    /\ (pc \in CyclePcs /\ pc' \notin CyclePcs) =>
            /\ pc = "alert"
            /\ CycleComplete
            /\ http = "idle"
            /\ pc' = IF isRunning THEN "sleep" ELSE "stopped"

\* C23: poll cycles never overlap: the fetch of the next cycle starts only
\* after the current cycle has finished all its classification and alert
\* dispatch, backoff sleeps included, and the inter-cycle sleep has elapsed.
C23_CyclesSequential == [][SequentialStep]_vars

\* The second cycle's fetch has started, after a first cycle that slept in a
\* backoff and dispatched an alert, and after the inter-cycle sleep.
C23_Witness ==
    /\ pc = "fetchTrades"
    /\ pollCount = 2
    /\ http = "pending"
    /\ throttles = 0
    /\ lastSleep > 0
    /\ alertCount[1] = 1
    /\ clock >= lastSleep + POLL_INTERVAL_MS

\* a is b with some elements left out, the others in b's order.
RECURSIVE IsSubseq(_, _)
IsSubseq(a, b) ==
    IF a = <<>> THEN TRUE
    ELSE IF b = <<>> THEN FALSE
    ELSE IF Head(a) = Head(b) THEN IsSubseq(Tail(a), Tail(b))
    ELSE IsSubseq(a, Tail(b))

\* The cycle's sequences keep the order of the feed: the new trades, the
\* aggressive trades, the suspects made of the trades analyzed so far, and the
\* alerts written so far.
FeedOrderKept ==
    /\ IsSubseq(newTrades, trades)
    /\ IsSubseq(aggressiveTrades, WithValue(newTrades))
    /\ IsSubseq([i \in 1..Len(suspects) |-> suspects[i].trade],
                SubSeq(aggressiveTrades, 1, Min(idx, Len(aggressiveTrades))))
    /\ Len(Alerts) <= Len(suspects)
    /\ \A i \in 1..Len(Alerts) : Alerts[i].suspect = suspects[i]

\* One step of the two loops: the trade classified is the next one of the
\* batch, a suspect is appended for the trade being analyzed, and the alert
\* written is that of the next suspect.
OneAtATimeStep ==
    /\ idx' # idx => idx' = idx + 1 \/ (idx' = 1 /\ pc' = "fetchTrades")
    /\ (suspects' # suspects /\ suspects' # <<>>) =>
            /\ idx <= Len(aggressiveTrades)
            /\ suspects' = Append(suspects, suspects'[Len(suspects')])
            /\ suspects'[Len(suspects')].trade = aggressiveTrades[idx]
    /\ Len(Alerts') > Len(Alerts) =>
            /\ Len(Alerts) = aidx - 1
            /\ Alerts' = Append(Alerts, [kind |-> "alert", suspect |-> suspects[aidx]])
            /\ idx > Len(aggressiveTrades)

\* C24: within a cycle the trades are classified one at a time in the order
\* of the feed, and the alerts are dispatched in that same relative order.
C24_FeedOrder == []FeedOrderKept /\ [][OneAtATimeStep]_vars

\* A cycle ended with alerts for two different trades, in the feed's order.
C24_Witness ==
    /\ CycleDone
    /\ Len(trades) = 2
    /\ Len(Alerts) = 2
    /\ Alerts[1].suspect.trade.id = trades[1].id
    /\ Alerts[2].suspect.trade.id = trades[2].id
    /\ trades[1].id # trades[2].id

\* C25: as long as no shutdown signal has been observed, and unless the
\* upstream goes on answering 429 forever, each of the first MaxPolls cycles is
\* followed by the start of the next one, also when it failed.
C25_PollingGoesOn ==
    <>[](http # "throttled") =>
        \A n \in 0..(MaxPolls - 1) :
            (pollCount = n /\ isRunning) ~> (pollCount = n + 1 \/ ~isRunning)

\* The second cycle has started after a first one that failed: its trade was
\* recorded as processed but its wallet's lookup never completed.
C25_Witness ==
    /\ pollCount = 2
    /\ pc = "fetchTrades"
    /\ isRunning
    /\ processedTradeIds # <<>>
    /\ userStatsCache = <<>>
    /\ alertCount[1] = 0

\* The records of an activity list that are trades: those of type 'trade' and
\* those that carry a side.
RECURSIVE TradeRecords(_)
TradeRecords(activities) ==
    IF activities = <<>> THEN <<>>
    ELSE LET r == Head(activities)
         IN  (IF r.type = "trade" \/ r.side \in {"BUY", "SELL"} THEN <<r>> ELSE <<>>)
             \o TradeRecords(Tail(activities))

MarketsLeqTrades(stats) == stats.uniqueMarkets <= stats.totalTrades

\* C26: the stats computed from an activity list, and every entry of the
\* stats cache, have uniqueMarkets <= totalTrades, where totalTrades is the
\* number of records of type 'trade' or with a side and uniqueMarkets the
\* number of distinct markets among those records.
C26_MarketsWithinTrades ==
    /\ MarketsLeqTrades(userStats)
    /\ \A i \in 1..Len(userStatsCache) : MarketsLeqTrades(userStatsCache[i])
    /\ pc = "classify" =>
        LET counted == TradeRecords(lookup.activities)
        IN  /\ userStats.totalTrades = Len(counted)
            /\ userStats.uniqueMarkets =
                    Cardinality({counted[i].market : i \in 1..Len(counted)})
            /\ StatsOf(CacheGet(userStatsCache, lookup.wallet)) = userStats

\* Stats were computed from a list that has a deposit without a side, a record
\* with a side only, and two trades on one market.
C26_Witness ==
    /\ pc = "classify"
    /\ Len(lookup.activities) = 3
    /\ \E i \in 1..3 : ~Qualifies(lookup.activities[i])
    /\ \E i \in 1..3 : /\ lookup.activities[i].type = "deposit"
                       /\ lookup.activities[i].side = "BUY"
    /\ userStats = [uniqueMarkets |-> 1, totalTrades |-> 2]

TierClauses == {"Large Position ($n)", "Brand New Wallet"}

\* The reason opens with the market-count clause for the wallet's count, then
\* the aggressive-buy clause; what follows is tier clauses only.
CommonClausesFirst(suspect) ==
    /\ Len(suspect.reason) >= 2
    /\ suspect.reason[1] =
            Clause("Fresh Wallet (n lifetime markets)", suspect.userStats.uniqueMarkets)
    /\ suspect.reason[2] = Clause("Taker BUY (aggressive)", 0)
    /\ \A i \in 3..Len(suspect.reason) : suspect.reason[i].text \in TierClauses

\* C27: the reason of every alert, of every severity, begins with the
\* market-count clause followed by the aggressive-buy clause; the clauses of
\* the tiers come only after these two.
C27_ReasonPrefix == \A i \in 1..Len(suspects) : CommonClausesFirst(suspects[i])

\* A HIGH suspect whose reason has a tier clause, in third place.
C27_Witness ==
    /\ Len(suspects) = 1
    /\ suspects[1].alertLevel = "HIGH"
    /\ Len(suspects[1].reason) = 3
    /\ suspects[1].reason[3].text = "Large Position ($n)"
    /\ suspects[1].reason[1].n = 2

\* The field is a string that parseFloat finds no number in.
Malformed(field) == ParseFloat(field).nan

\* The field parses as a finite number / as Infinity.
Finite(field) == ~ParseFloat(field).nan /\ ~ParseFloat(field).inf
Infinite(field) == ParseFloat(field).inf

\* The value attached to the trade of SpecValue.
Valued == pc = "valued"
AttachedValue == aggressiveTrades[1].valueUsd

\* C28 as claimed: the value is price times size, with a field that is no
\* number counting as 0, so that a trade with such a field has value 0; and
\* the computation raises for no trade.
C28_MalformedIsZero ==
    /\ pc = "value" => ENABLED AttachValues
    /\ Valued =>
        LET price == newTrades[1].price
            size == newTrades[1].size
        IN  /\ (Finite(price) /\ Finite(size)) =>
                    AttachedValue = Num(ParseFloat(price).v * ParseFloat(size).v)
            /\ (Malformed(price) \/ Malformed(size)) => AttachedValue = Num(0)

\* C28 as amended: the same, but a trade with a field that is no number has
\* value 0 only when its other field is finite or no number either; when the
\* other field parses as Infinity the value is NaN.
C28_MalformedIsZeroOrNaN ==
    /\ pc = "value" => ENABLED AttachValues
    /\ Valued =>
        LET price == newTrades[1].price
            size == newTrades[1].size
        IN  /\ (Finite(price) /\ Finite(size)) =>
                    AttachedValue = Num(ParseFloat(price).v * ParseFloat(size).v)
            /\ ((Malformed(price) \/ Malformed(size))
                    /\ ~Infinite(price) /\ ~Infinite(size)) => AttachedValue = Num(0)
            /\ ((Malformed(price) /\ Infinite(size))
                    \/ (Infinite(price) /\ Malformed(size))) => AttachedValue = NaN

\* A trade with a price that is no number and a size of 6000 got the value 0.
C28_Witness ==
    /\ Valued
    /\ newTrades[1].price = "abc"
    /\ newTrades[1].size = "6000"
    /\ AttachedValue = Num(0)

\* masked is address with its first 5 and last 3 characters kept around three
\* dots, and nothing else.
KeepsEnds(address, masked) ==
    /\ Len(masked) = 11
    /\ \A i \in 1..5 : masked[i] = address[i]
    /\ \A i \in 6..8 : masked[i] = "."
    /\ \A i \in 1..3 : masked[8 + i] = address[Len(address) - 3 + i]

\* C29: a string shorter than 10 characters is returned unchanged; a string
\* of 10 characters or more becomes its first 5 characters, three dots and its
\* last 3 characters; and masking the result again returns it as it is.
C29_MaskIdempotent ==
    /\ pc \in {"masked", "remasked"} =>
        IF Len(lookup.wallet) < 10
        THEN console[1].text = lookup.wallet
        ELSE KeepsEnds(lookup.wallet, console[1].text)
    /\ pc = "remasked" => console[2].text = console[1].text

\* A 12-character address was shortened, and masking it again changed nothing.
C29_Witness ==
    /\ pc = "remasked"
    /\ Len(lookup.wallet) = 12
    /\ console[1].text # lookup.wallet
    /\ console[2].text = console[1].text
    /\ \E i \in 1..5 : lookup.wallet[i] = "a"

\* The places of the console at which the cycle's summary stands.
Summaries == {i \in 1..Len(console) : console[i].kind = "summary"}

\* A finished cycle has logged one summary, which counts its suspects.
OneSummary ==
    CycleDone =>
        /\ Cardinality(Summaries) = 1
        /\ \A i \in Summaries : console[i].suspects = Len(suspects)

\* C30 as claimed: the summary of a cycle is logged after every alert of that
\* cycle: no alert stands after the summary in the console.
C30_SummaryAfterAlerts ==
    /\ OneSummary
    /\ \A i \in Summaries :
        \A j \in 1..Len(console) : console[j].kind = "alert" => j < i

\* C30 as amended: the summary of a cycle is logged once every aggressive trade
\* has been analyzed and before the first alert of that cycle: every alert
\* stands after the summary in the console.
C30_SummaryBeforeAlerts ==
    /\ OneSummary
    /\ Summaries # {} => idx > Len(aggressiveTrades)
    /\ \A j \in 1..Len(console) :
        console[j].kind = "alert" => \E i \in Summaries : i < j

\* A cycle ended whose console has the summary first and two alerts after it.
C30_Witness ==
    /\ CycleDone
    /\ Len(console) >= 3
    /\ console[1].kind = "summary"
    /\ console[1].suspects = 2
    /\ Len(Alerts) = 2

\* One step of a cycle by its trade fetch: the fetch that fails hands over an
\* empty batch and touches neither the processed-ID set nor the caches nor the
\* poll counter; and the rest of a cycle with an empty batch calls nothing,
\* finds no suspect, writes no alert and goes to the end of the cycle.
NoDataStep ==
    /\ (pc = "fetchTrades" /\ http = "error" /\ pc' # pc) =>
            /\ trades' = <<>> /\ newTrades' = <<>> /\ aggressiveTrades' = <<>>
            /\ suspects' = <<>>
            /\ pc' = "analyze"
            /\ UNCHANGED <<processedTradeIds, userStatsCache, marketCache, pollCount,
                           currentBackoff>>
    /\ (pc \in CyclePcs \ {"fetchTrades"} /\ trades = <<>>) =>
            /\ pc \in {"analyze", "alert"}
            /\ pc' \in {"analyze", "alert", "sleep", "stopped"}
            /\ http' # "pending"
            /\ suspects' = <<>>
            /\ Alerts' = <<>>
            /\ UNCHANGED <<processedTradeIds, userStatsCache, marketCache, pollCount,
                           currentBackoff, lookup>>

\* The first cycle got an empty batch and has got past its fetch.
FirstCycleNoData == pollCount = 1 /\ pc \notin {"init", "fetchTrades"} /\ trades = <<>>

\* The first cycle left behind the state the process started with, but for the
\* poll counter (and the backoff delay).
NothingButPollCount ==
    /\ processedTradeIds = <<>>
    /\ userStatsCache = <<>>
    /\ marketCache = EmptyMap
    /\ suspects = <<>>
    /\ Alerts = <<>>
    /\ lookup = NoLookup

\* C31 as claimed: a cycle whose trade fetch fails has no new trade, no alert,
\* no wallet or metadata call, and leaves the processed-ID set and both caches
\* as they were; of the process's state only the poll counter has advanced.
C31_OnlyPollCountAdvances ==
    FirstCycleNoData => (NothingButPollCount /\ currentBackoff = INITIAL_BACKOFF_MS)

\* C31 as amended: the same, but the backoff delay is left as the throttling
\* answers before the failure raised it: it is at its floor only when the
\* fetch was not throttled.
C31_NoDataThisCycle ==
    /\ [][NoDataStep]_vars
    /\ [](FirstCycleNoData =>
            /\ NothingButPollCount
            /\ throttles = 0 => currentBackoff = INITIAL_BACKOFF_MS)

\* The second cycle's fetch failed, after a first cycle that processed a trade
\* and cached its wallet, and the cycle has ended.
C31_Witness ==
    /\ CycleDone
    /\ pollCount = 2
    /\ trades = <<>>
    /\ processedTradeIds = <<1>>
    /\ userStatsCache # <<>>
    /\ Alerts = <<>>
    /\ throttles > 0

\* The cycle ended before every aggressive trade of its batch was analyzed.
Abandoned == CycleDone /\ idx <= Len(aggressiveTrades)

\* The identifiers of the cycle's new trades are all in the processed-ID set.
NewIdsProcessed ==
    \A i \in 1..Len(newTrades) : newTrades[i].id \in Range(processedTradeIds)

\* One step of the classification loop that logs an exception: the cycle ends
\* there, with no alert written.
ClassificationRaisesStep ==
    (pc \in {"analyze", "fetchActivity", "classify", "fetchMarket"} /\ LogsPollError) =>
        /\ pc' = IF isRunning THEN "sleep" ELSE "stopped"
        /\ Alerts' = <<>>
        /\ suspects' = suspects
        /\ idx' = idx /\ idx <= Len(aggressiveTrades)

\* C32: when the classification of a trade raises, the cycle is abandoned with
\* no alert written, not even for the suspects found before; the identifiers
\* of the batch are in the processed-ID set already, and (the set not having
\* reached its cap) no identifier is a new trade in a second cycle.
C32_AbandonedCycle ==
    /\ [][ClassificationRaisesStep]_vars
    /\ [](Abandoned => (Alerts = <<>> /\ NewIdsProcessed))
    /\ [](\A id \in Ids : newCycles[id] <= 1)

\* A first cycle found a suspect in trade 1 and was abandoned before its alert;
\* the second cycle was served trade 1 again and did not take it for new.
C32_Witness ==
    /\ pollCount = 2
    /\ CycleDone
    /\ \E i \in 1..Len(trades) : trades[i].id = 1
    /\ newTrades = <<>>
    /\ CacheHas(userStatsCache, "w1")
    /\ alertCount[1] = 0
    /\ DISCORD_WEBHOOK_URL = ""

\* C33: for every ceiling, those below 3 included, every suspect and every
\* alert written is for a wallet whose uniqueMarkets is at most the ceiling.
C33_CeilingGatesAlerts ==
    /\ \A i \in 1..Len(suspects) :
            suspects[i].userStats.uniqueMarkets <= MAX_UNIQUE_MARKETS
    /\ \A i \in 1..Len(Alerts) :
            Alerts[i].suspect.userStats.uniqueMarkets <= MAX_UNIQUE_MARKETS
    /\ (CycleDone /\ ~PassesFreshness) => Alerts = <<>>

\* Under the ceiling 1 the cycle of a $100,000 trade by a wallet of two markets
\* (HIGH by the tiers) ended without an alert.
C33_Witness ==
    /\ CycleDone
    /\ MAX_UNIQUE_MARKETS = 1
    /\ userStats.uniqueMarkets = 2
    /\ aggressiveTrades[1].valueUsd = Num(100000)
    /\ Alerts = <<>>
    /\ Len(console) = 1

\* main.ts:171-228: the severity analyzeTrade gives a trade of that value by a
\* wallet of that many markets, NONE standing for no alert.
Severity(uniqueMarkets, valueUsd, ceiling) ==
    IF IsFresh(uniqueMarkets, ceiling) THEN AlertLevel(uniqueMarkets, OrZero(valueUsd))
    ELSE "NONE"

Rank(level) ==
    CASE level = "HIGH" -> 3
      [] level = "MEDIUM" -> 2
      [] level = "LOW" -> 1
      [] level = "NONE" -> 0

\* The values a trade that passed the size filter can have, as numbers.
ClassifyValues == {ParseFloat(size) : size \in ClassifySizes}

\* C34: the outcome for the trade analyzed is the severity of its wallet's
\* market count and its value; no larger market count has a higher severity
\* at that value, and no larger value has a lower severity at that count.
C34_SeverityMonotone ==
    Decided =>
        LET n == userStats.uniqueMarkets
            v == aggressiveTrades[1].valueUsd
        IN  /\ Outcome = Severity(n, v, MAX_UNIQUE_MARKETS)
            /\ \A m \in n..MaxMarkets :
                    Rank(Severity(m, v, MAX_UNIQUE_MARKETS)) <= Rank(Outcome)
            /\ \A w \in ClassifyValues :
                    w.v >= v.v => Rank(Severity(n, w, MAX_UNIQUE_MARKETS)) >= Rank(Outcome)

\* A MEDIUM outcome with a HIGH one above it in value and a LOW one above it
\* in market count.
C34_Witness ==
    /\ Decided
    /\ Outcome = "MEDIUM"
    /\ userStats.uniqueMarkets = 2
    /\ aggressiveTrades[1].valueUsd = Num(4999)
    /\ Severity(2, Num(5000), MAX_UNIQUE_MARKETS) = "HIGH"
    /\ Severity(4, Num(4999), MAX_UNIQUE_MARKETS) = "LOW"

\* One step of the process, by the shared backoff delay: a failure that is no
\* 429 leaves it, only a success resets it, only a 429 raises it, and the sleep
\* after a 429 lasts the delay as it stands, at every call site.
SharedBackoffStep ==
    /\ (http = "error" /\ http' # http) => currentBackoff' = currentBackoff
    /\ currentBackoff' < currentBackoff =>
            /\ http = "ok"
            /\ pc \in FetchPcs
            /\ currentBackoff' = INITIAL_BACKOFF_MS
    /\ currentBackoff' > currentBackoff =>
            /\ http = "throttled"
            /\ pc \in FetchPcs
            /\ currentBackoff' = NextBackoff(currentBackoff)
    /\ (http = "throttled" /\ http' # http) =>
            /\ lastSleep' = currentBackoff
            /\ clock' = clock + currentBackoff
    /\ (http = "ok" /\ http' # http /\ pc \in FetchPcs) =>
            currentBackoff' = INITIAL_BACKOFF_MS

\* C35: a failure that is not a throttling answer leaves the shared backoff
\* delay as it is; only a success resets it and only a throttling answer
\* raises it; so the sleep after a throttling answer lasts the delay that
\* earlier calls left, at whatever call site.
C35_FailureKeepsBackoff == [][SharedBackoffStep]_vars

\* The activity fetch of the first cycle was throttled once and then failed;
\* the trade fetch of the second cycle has been answered 429 and is about to
\* sleep for the raised delay.
C35_Witness ==
    /\ pollCount = 2
    /\ pc = "fetchTrades"
    /\ http = "throttled"
    /\ throttles = 1
    /\ lastSleep = INITIAL_BACKOFF_MS
    /\ currentBackoff = INITIAL_BACKOFF_MS * BACKOFF_MULTIPLIER
    /\ CacheHas(userStatsCache, "w1")
    /\ CacheGet(userStatsCache, "w1").uniqueMarkets = 0

\* b, 2b, 4b, ... up to the ceiling.
RECURSIVE DoublingsOf(_)
DoublingsOf(b) == IF b > MAX_BACKOFF_MS THEN {} ELSE {b} \cup DoublingsOf(b * 2)

\* C36: in every state the backoff delay is at least the floor and at most the
\* ceiling, and is the floor doubled some number of times or the ceiling.
C36_BackoffRange ==
    /\ INITIAL_BACKOFF_MS <= currentBackoff
    /\ currentBackoff <= MAX_BACKOFF_MS
    /\ currentBackoff \in DoublingsOf(INITIAL_BACKOFF_MS) \cup {MAX_BACKOFF_MS}

\* After a sleep of 32000 ms the delay stands at the ceiling, which is no
\* doubling of the floor.
C36_Witness ==
    /\ currentBackoff = MAX_BACKOFF_MS
    /\ lastSleep = 32000
    /\ MAX_BACKOFF_MS \notin DoublingsOf(INITIAL_BACKOFF_MS)

\* The dedup step of a cycle, by what it evicts: the set after the step is the
\* old set less some of its oldest identifiers, in its old order (an identifier
\* seen again keeps its place), followed by the new identifiers of the batch,
\* none of which is evicted.
EvictsOldOnlyStep ==
    (pc = "fetchTrades" /\ pc' = "analyze") =>
        LET old == processedTradeIds
            new == NewIds(newTrades')
            kept == processedTradeIds'
            evicted == (Range(old) \cup new) \ Range(kept)
        IN  /\ evicted \cap new = {}
            /\ evicted \subseteq Range(old)
            /\ \E k \in 0..Len(old) :
                /\ evicted = {old[i] : i \in 1..k}
                /\ SubSeq(kept, 1, Len(old) - k) = SubSeq(old, k + 1, Len(old))
                /\ {kept[i] : i \in (Len(old) - k + 1)..Len(kept)} = new
                /\ Len(kept) = Len(old) - k + Cardinality(new)

\* C37: the identifiers a cycle adds to the processed-ID set are never among
\* those its eviction removes: only identifiers inserted in earlier cycles are
\* evicted, oldest first, and an identifier seen again keeps its place.
C37_NewIdsSurviveEviction == [][EvictsOldOnlyStep]_vars

\* The dedup step has just evicted an identifier that the batch of this very
\* cycle carries: it was in the set, so it was not new, and it was among the
\* oldest.
C37_Witness ==
    /\ pc = "analyze"
    /\ idx = 1
    /\ newTrades # <<>>
    /\ \E i \in 1..Len(trades) :
        /\ trades[i].id \notin Range(processedTradeIds)
        /\ trades[i].id \notin NewIds(newTrades)

\* The wallet of the trade under analysis has a cache entry whose TTL window,
\* counted from the entry's timestamp, is over.
EntryStale ==
    /\ idx <= Len(aggressiveTrades)
    /\ CacheHas(userStatsCache, aggressiveTrades[idx].owner)
    /\ clock - CacheGet(userStatsCache, aggressiveTrades[idx].owner).timestamp
            >= USER_CACHE_TTL_MS

\* One step of a wallet lookup, by its timestamp: the time is taken when the
\* lookup starts, the entry stored when the fetch returns carries that time,
\* and a lookup that finds a stale entry fetches.
StartStampStep ==
    /\ (pc = "analyze" /\ pc' = "fetchActivity") => now' = clock
    /\ (pc = "fetchActivity" /\ pc' = "classify") =>
            /\ now' = now
            /\ CacheHas(userStatsCache', lookup.wallet)
            /\ CacheGet(userStatsCache', lookup.wallet).timestamp = now
    /\ (pc = "analyze" /\ pc' \notin {"analyze", "alert"} /\ EntryStale) =>
            pc' = "fetchActivity"

\* C38: the timestamp of a wallet-cache entry is the time its lookup started,
\* taken before the activity fetch; the TTL window runs from there, so an
\* entry whose fetch took the TTL or longer is stale when it is stored and the
\* next lookup of that wallet fetches again.
C38_StampedAtLookupStart == [][StartStampStep]_vars

\* An entry has just been stored after a fetch that took the whole TTL: it is
\* no cache hit at the very time it is stored.
C38_Witness ==
    /\ pc = "classify"
    /\ lookup.fetches = 1
    /\ CacheGet(userStatsCache, lookup.wallet).timestamp = now
    /\ clock = now + USER_CACHE_TTL_MS
    /\ ~IsCacheHit(userStatsCache, lookup.wallet, clock)

\* The stats of a wallet without any history.
ZeroStats == [uniqueMarkets |-> 0, totalTrades |-> 0]

\* The wallet's last fetching lookup stored zero-history stats and the lookup
\* under way started within its TTL.
WithinTTLOfZero == WithinTTL /\ StatsOf(lookup.prior) = ZeroStats

\* The lookup under way answered zero-history stats without an upstream call.
ZeroFromCache == lookup.fetches = 0 /\ userStats = ZeroStats

\* One step around a failed activity fetch: it stores zero-history stats for
\* the wallet under the lookup's time, and a suspect built on zero-history
\* stats is a HIGH one of 0 lifetime markets.
FailureCachedStep ==
    /\ (pc = "fetchActivity" /\ http = "error" /\ pc' = "classify") =>
            /\ userStats' = ZeroStats
            /\ CacheHas(userStatsCache', lookup.wallet)
            /\ StatsOf(CacheGet(userStatsCache', lookup.wallet)) = ZeroStats
            /\ CacheGet(userStatsCache', lookup.wallet).timestamp = now
    /\ (pc \in {"classify", "fetchMarket"} /\ Len(suspects') > Len(suspects)
            /\ userStats = ZeroStats) =>
            /\ suspects'[Len(suspects')].userStats.uniqueMarkets = 0
            /\ suspects'[Len(suspects')].alertLevel = "HIGH"

\* C39 as claimed: a failed activity fetch is cached as zero history, and
\* every lookup of the wallet within the TTL answers uniqueMarkets = 0 (HIGH)
\* without an upstream call.
C39_FailureCachedForTTL ==
    /\ [](LookupDone /\ WithinTTLOfZero => ZeroFromCache)
    /\ [][FailureCachedStep]_vars

\* C39 as amended: the same for a wallet whose entry is still in the cache; a
\* wallet whose entry the size cap removed is fetched again within the TTL.
C39_FailureCachedWhileCached ==
    /\ [](LookupDone /\ WithinTTLOfZero /\ lookup.cached => ZeroFromCache)
    /\ [][FailureCachedStep]_vars

\* A wallet whose activity fetch failed has a later trade, within the TTL,
\* turned into a HIGH suspect of 0 lifetime markets without an upstream call.
C39_Witness ==
    /\ pc = "analyze"
    /\ suspects # <<>>
    /\ lookup.fetches = 0
    /\ lookup.cached
    /\ WithinTTLOfZero
    /\ now > lookup.prior.timestamp
    /\ suspects[Len(suspects)].userStats.address = lookup.wallet
    /\ suspects[Len(suspects)].userStats.uniqueMarkets = 0
    /\ suspects[Len(suspects)].alertLevel = "HIGH"

\* The market has a null entry in the metadata cache.
NullCached(cache, market) == market \in DOMAIN cache /\ cache[market] = NULL

\* One step around a failed metadata fetch: the failure stores a null entry
\* for the market; a null entry stays; no fetch starts for a market that has
\* an entry; a suspect built and an alert shown on a market with a null entry
\* carry null metadata.
FailedMetadataStep ==
    /\ (pc = "fetchMarket" /\ http = "error" /\ pc' # "fetchMarket") =>
            /\ NullCached(marketCache', aggressiveTrades[idx].market)
            /\ suspects'[Len(suspects')].market = NULL
    /\ \A m \in DOMAIN marketCache :
            NullCached(marketCache, m) => NullCached(marketCache', m)
    /\ (pc # "fetchMarket" /\ pc' = "fetchMarket") =>
            aggressiveTrades[idx].market \notin DOMAIN marketCache
    /\ (pc = "classify" /\ Len(suspects') > Len(suspects)
            /\ NullCached(marketCache, aggressiveTrades[idx].market)) =>
            /\ suspects'[Len(suspects')].market = NULL
            /\ http' = "idle"
    /\ (Len(Alerts') > Len(Alerts)
            /\ NullCached(marketCache, Alerts'[Len(Alerts')].suspect.trade.market)) =>
            Alerts'[Len(Alerts')].suspect.market = NULL

\* C40: a metadata fetch that failed is cached as a null, like 'no match':
\* the market is never fetched again, and every later suspect and alert on it
\* carries null metadata.
C40_FailedMetadataCached == [][FailedMetadataStep]_vars

\* The first cycle took exactly one timeout and both wallets got their
\* history, so the one failure was the metadata fetch of the first trade: the
\* second trade's alert on the market carries null metadata with no further
\* call.
C40_Witness ==
    /\ pollCount = 1
    /\ clock = REQUEST_TIMEOUT_MS
    /\ Len(Alerts) = 2
    /\ Alerts[1].suspect.trade.market = Alerts[2].suspect.trade.market
    /\ Alerts[1].suspect.userStats.uniqueMarkets = 1
    /\ Alerts[2].suspect.userStats.uniqueMarkets = 1
    /\ Alerts[1].suspect.market = NULL
    /\ Alerts[2].suspect.market = NULL
    /\ NullCached(marketCache, Alerts[2].suspect.trade.market)

====
